---- MODULE Spec2Model ----
(***************************************************************************)
(* Chatbot Enhancer content scripts: session recorder, syntax highlighter, *)
(* shared change observer, theme manager, command bar and the host         *)
(* orchestrator, each as a state machine over the part of the page it      *)
(* reads and writes.                                                       *)
(***************************************************************************)
EXTENDS Integers, Sequences, FiniteSets, TLC

\* ------------------------------------------------------------------------
\* Bounds of the model
\* ------------------------------------------------------------------------
MaxMsgs == 2
MaxClicks == 3
MaxBlocks == 2
MaxBatchSize == 4
MaxChanges == 2
MaxCustom == 1
MaxExecs == 2
MaxStorageOps == 2
MaxModuleInserts == 1

\* initializeExtension has two call sites per page load (the DOMContentLoaded
\* listener and the immediate call), so each feature is initialised at most twice
MaxInits == 2

\* ------------------------------------------------------------------------
\* State
\* ------------------------------------------------------------------------
VARIABLES
  platform,          \* platform id the page was classified as
  lastEvent,         \* the operation that produced the current state
  \* --- session recorder (sessionRecorder.js) ---
  hasChatContainer,  \* document holds a .chat-container element
  messages,          \* message nodes the page inserted, in document order
                     \* (attached: the node is still in the document)
  recControls,       \* .recording-controls element present
  recObservers,      \* message observers observing the chat container
  recInitPending,    \* initSessionRecorder calls awaiting checkConsent()
  recInitCalls,      \* initSessionRecorder calls that passed the selector check
  isRecording,
  recordedSession,
  toggleText,        \* text of the .recording-toggle button
  indicatorActive,   \* indicator shows "Recording" / has recording-active
  consentPending,    \* toggleRecording calls awaiting checkConsent(true)
  savePending,       \* toggleRecording calls awaiting the SAVE_SESSION reply
  confirmations,     \* .session-save-confirmation elements in the body
  recSent,           \* runtime messages sent by the recorder, in order
  clicks,            \* clicks on the recording toggle so far
  expected,          \* nodes a session of the current interval is to hold
  \* --- syntax highlighter (syntaxHighlighter.js) ---
  prismLoaded,       \* window.Prism is defined
  hasTextGrammar,    \* Prism.languages.text is defined
  parents,           \* parent elements of the code blocks
  codeBlocks,        \* code elements the platform's codeBlockSelector
                     \* matches, in document order
  highlightedCount,  \* highlightedCount of the last pass
  \* --- host orchestrator and shared change observer (content.js, domUtils.js) ---
  settings,          \* settings record initializeExtension holds
  sharedObservers,   \* observers installed by observeDOMChanges
  pendingBatch,      \* mutation records queued for the next delivery
  callbackRuns,      \* callback invocations made by the last delivery
  pageUrl,           \* host-name substrings window.location.href contains
  pageDom,           \* class fingerprints the document holds at load
  initCalls,         \* initializeExtension calls made, per tab
  awaitConsent,      \* calls awaiting checkConsent(), per tab
  initDone,          \* calls that ran to the end, per tab
  initFailed,        \* calls that ended in the catch, per tab
  themeListeners,    \* runtime.onMessage listeners registered, per tab
  \* --- extension runtime: message bus and persisted settings ---
  bus,               \* requests on their way to the background, in order
  inbox,             \* replies and notifications on their way to each tab
  storedSettings,    \* the persisted settings record
  themeChanges,      \* user changes of a theme selector so far
  \* --- theme manager (themeManager.js) ---
  themeState,        \* per tab: currentTheme, themeStylesheet, the theme
                     \* links of the head, the body classes, the selector
  \* --- command bar (commandBar.js) ---
  pageControls,      \* input controls the page holds, in document order
  inputValue,        \* value of each text area
  inputEvents,       \* input events dispatched on each text area
  commands,
  cbBars,            \* .quick-command-bar elements in the body
  buttons,           \* command buttons of the bar `commandBar` refers to
  orphanButtons,     \* command buttons of the bars created before it, which
                     \* stay in the document
  isCommandBarVisible,
  barDisplay,        \* commandBar.style.display
  keyListeners,      \* keydown listeners registered by initCommandBar
  cbToggle,          \* .command-bar-toggle element present
  cbInitCalls,       \* initCommandBar calls that passed the selector check
  cbAdds,            \* custom commands added through the bar so far
  cbExecs,           \* clicks on command buttons so far
  \* --- persisted sessions (storage.js, content.js) ---
  sessions,          \* the `sessions` list of chrome.storage.local
  retentionPolicy,   \* settings.sessionRecording as cleanupOldSessions reads
                     \* it from chrome.storage.sync
  storageOps,        \* deleteSession and cleanupOldSessions runs under way
  opsStarted,        \* deleteSession calls and alarms so far
  completedDeletes,  \* ids whose deleteSession call has resolved
  \* --- changes the extension itself makes under the body ---
  callbackTotal,     \* runs of the shared observers' callback so far
  moduleInserts      \* elements the theme, command-bar and recorder modules
                     \* have appended so far

recVars == <<hasChatContainer, messages, recControls, recObservers,
             recInitPending, recInitCalls, isRecording, recordedSession,
             toggleText, indicatorActive, consentPending, savePending,
             confirmations, recSent, clicks, expected>>

hlVars == <<prismLoaded, hasTextGrammar, parents, codeBlocks, highlightedCount>>

obsVars == <<settings, sharedObservers, pendingBatch, callbackRuns>>

orcVars == <<pageUrl, pageDom, initCalls, awaitConsent, initDone,
             initFailed, themeListeners>>

netVars == <<bus, inbox, storedSettings, themeChanges>>

thVars == <<themeState>>

cbVars == <<pageControls, inputValue, inputEvents, commands, cbBars, buttons,
            orphanButtons,
            isCommandBarVisible, barDisplay, keyListeners, cbToggle,
            cbInitCalls, cbAdds, cbExecs>>

stoVars == <<sessions, retentionPolicy, storageOps, opsStarted,
             completedDeletes>>

fbVars == <<callbackTotal, moduleInserts>>

vars == <<platform, lastEvent, recVars, hlVars, obsVars, orcVars, netVars,
          thVars, cbVars, stoVars, fbVars>>

\* the tabs of the browser; the highlighter, observer, command bar and
\* recorder state kept is that of the first one
Tabs == {1, 2}
ObservedTab == CHOOSE t \in Tabs : \A u \in Tabs : t <= u

Platforms == {"chatgpt", "mistral"}
Roles == {"user", "assistant"}
\* what a message node's content element holds: no such element, an element
\* with empty markup, an element with markup
ContentKinds == {"none", "empty", "text"}

\* platform ids a feature can be handed that name no supported platform
UnsupportedIds == {"null", "claude"}

EventArg(op, flag, arg) == [op |-> op, flag |-> flag, arg |-> arg]
Event(op, flag) == EventArg(op, flag, "")

\* ------------------------------------------------------------------------
\* Session recorder
\* ------------------------------------------------------------------------
RecorderSelectorsDefined(p) == p \in Platforms

\* role of a message node: the data-message-author-role attribute on
\* chatgpt, the user-message class convention on mistral
MessageRole(p, node) ==
  IF p = "chatgpt" THEN node.role
  ELSE IF node.role = "user" THEN "user" ELSE "assistant"

\* `role && content`
RoleAndContent(role, content) == role # "" /\ content \notin {"none", "empty"}

Entry(p, node) ==
  [node |-> node.id, role |-> MessageRole(p, node), content |-> node.content]

\* captureExistingMessages: forEach over the message nodes in the document,
\* in document order; dereferencing a missing content element throws and
\* ends the loop.
RECURSIVE CaptureLoop(_, _, _, _)
CaptureLoop(p, msgs, i, buf) ==
  IF i > Len(msgs) THEN [buf |-> buf, threw |-> FALSE]
  ELSE IF ~msgs[i].attached THEN CaptureLoop(p, msgs, i + 1, buf)
  ELSE IF msgs[i].content = "none" THEN [buf |-> buf, threw |-> TRUE]
  ELSE CaptureLoop(p, msgs, i + 1,
         IF RoleAndContent(MessageRole(p, msgs[i]), msgs[i].content)
         THEN Append(buf, Entry(p, msgs[i])) ELSE buf)

captureExistingMessages(p, msgs) == CaptureLoop(p, msgs, 1, <<>>)

ObserverCallbackUngated(p, recording, buf, node, top) ==
  IF top /\ RoleAndContent(MessageRole(p, node), node.content)
  THEN Append(buf, Entry(p, node))
  ELSE buf

\* one run of the message observer's callback for one added node
\* (`top`: the message node is itself the added node, not a descendant)
ObserverCallback(p, recording, buf, node, top) ==
  IF ~recording THEN buf
  ELSE IF top /\ RoleAndContent(MessageRole(p, node), node.content)
       THEN Append(buf, Entry(p, node))
       ELSE buf

RECURSIVE RunObservers(_, _, _, _, _, _)
RunObservers(n, p, recording, buf, node, top) ==
  IF n = 0 THEN buf
  ELSE RunObservers(n - 1, p, recording,
                    ObserverCallback(p, recording, buf, node, top), node, top)

ConsentAllowsStartNoReturn(hasConsent) == TRUE

\* `if (!hasConsent) return;` of toggleRecording
ConsentAllowsStart(hasConsent) == hasConsent

SessionIsEmptyNever(buf) == FALSE

\* `if (recordedSession.length === 0) return;` of saveSession
SessionIsEmpty(buf) == Len(buf) = 0

SaveSessionMsg(buf) == [type |-> "SAVE_SESSION", content |-> buf]
InjectPopupMsg == [type |-> "INJECT_POPUP_SCRIPT", content |-> <<>>]

\* initSessionRecorder(p) up to its `await checkConsent()`
InitSessionRecorderStart(p) ==
  /\ recInitCalls' = IF RecorderSelectorsDefined(p)
                     THEN recInitCalls + 1 ELSE recInitCalls
  /\ recInitPending' = IF RecorderSelectorsDefined(p)
                       THEN recInitPending + 1 ELSE recInitPending
  /\ UNCHANGED <<hasChatContainer, messages, recControls, recObservers,
                 isRecording, recordedSession, toggleText, indicatorActive,
                 consentPending, savePending, confirmations, recSent, clicks,
                 expected>>

InitSessionRecorderCall(p) ==
  /\ recInitCalls < MaxInits
  /\ InitSessionRecorderStart(p)
  /\ lastEvent' = EventArg("initSessionRecorder", RecorderSelectorsDefined(p), p)

ConsentAllowsInstallAlways(hasConsent) == TRUE

\* `if (!hasConsent) return;` of initSessionRecorder
ConsentAllowsInstall(hasConsent) == hasConsent

\* initSessionRecorder after the passive consent check answered
InitSessionRecorderResume(p, hasConsent) ==
  /\ recInitPending > 0
  /\ recInitPending' = recInitPending - 1
  /\ IF ConsentAllowsInstall(hasConsent)
     THEN /\ recControls' = TRUE
          /\ recSent' = IF recControls THEN recSent
                        ELSE Append(recSent, InjectPopupMsg)
          /\ toggleText' = IF recControls THEN toggleText ELSE "Start Recording"
          /\ indicatorActive' = IF recControls THEN indicatorActive ELSE FALSE
          /\ recObservers' = IF hasChatContainer
                             THEN recObservers + 1 ELSE recObservers
     ELSE UNCHANGED <<recControls, recSent, toggleText, indicatorActive,
                      recObservers>>
  /\ lastEvent' = Event("initSessionRecorderResume", hasConsent)
  /\ UNCHANGED <<hasChatContainer, messages, recInitCalls, isRecording,
                 recordedSession, consentPending, savePending, confirmations,
                 clicks, expected>>

\* click on the toggle while idle: toggleRecording up to `await checkConsent(true)`
ClickStart ==
  /\ recControls /\ clicks < MaxClicks /\ ~isRecording
  /\ clicks' = clicks + 1
  /\ consentPending' = consentPending + 1
  /\ lastEvent' = Event("clickStart", TRUE)
  /\ UNCHANGED <<hasChatContainer, messages, recControls, recObservers,
                 recInitPending, recInitCalls, isRecording, recordedSession,
                 toggleText, indicatorActive, savePending, confirmations,
                 recSent, expected>>

\* toggleRecording after the forced consent check answered
ConsentAnswered(p, hasConsent) ==
  /\ consentPending > 0
  /\ consentPending' = consentPending - 1
  /\ lastEvent' = Event("forcedConsent", hasConsent)
  /\ IF ConsentAllowsStart(hasConsent)
     THEN LET cap == captureExistingMessages(p, messages)
          IN /\ isRecording' = TRUE
             /\ recordedSession' = cap.buf
             /\ toggleText' = IF cap.threw THEN toggleText ELSE "Stop Recording"
             /\ indicatorActive' = IF cap.threw THEN indicatorActive ELSE TRUE
             /\ expected' = SelectSeq([i \in 1..Len(messages) |-> messages[i].id],
                                      LAMBDA id : messages[id].attached)
     ELSE UNCHANGED <<isRecording, recordedSession, toggleText,
                      indicatorActive, expected>>
  /\ UNCHANGED <<hasChatContainer, messages, recControls, recObservers,
                 recInitPending, recInitCalls, savePending, confirmations,
                 recSent, clicks>>

\* click on the toggle while recording: toggleRecording up to the save;
\* with an empty buffer saveSession returns at once and the controls are reset
ClickStop ==
  /\ recControls /\ clicks < MaxClicks /\ isRecording
  /\ clicks' = clicks + 1
  /\ isRecording' = FALSE
  /\ lastEvent' = Event("clickStop", SessionIsEmpty(recordedSession))
  /\ IF SessionIsEmpty(recordedSession)
     THEN /\ toggleText' = "Start Recording"
          /\ indicatorActive' = FALSE
          /\ UNCHANGED <<recSent, savePending>>
     ELSE /\ recSent' = Append(recSent, SaveSessionMsg(recordedSession))
          /\ savePending' = savePending + 1
          /\ UNCHANGED <<toggleText, indicatorActive>>
  /\ UNCHANGED <<hasChatContainer, messages, recControls, recObservers,
                 recInitPending, recInitCalls, recordedSession, consentPending,
                 confirmations, expected>>

SaveReplies == {"success", "failure", "none"}

\* the SAVE_SESSION reply arrives: rest of saveSession, then the controls
\* are reset by toggleRecording
SaveAnswered(reply) ==
  /\ savePending > 0
  /\ savePending' = savePending - 1
  /\ confirmations' = IF reply = "success" THEN confirmations + 1
                      ELSE confirmations
  /\ toggleText' = "Start Recording"
  /\ indicatorActive' = FALSE
  /\ lastEvent' = Event("saveAnswered", reply = "success")
  /\ UNCHANGED <<hasChatContainer, messages, recControls, recObservers,
                 recInitPending, recInitCalls, isRecording, recordedSession,
                 consentPending, recSent, clicks, expected>>

\* showSaveConfirmation's timeout removes the confirmation element
ConfirmationTimeout ==
  /\ confirmations > 0
  /\ confirmations' = confirmations - 1
  /\ lastEvent' = Event("confirmationTimeout", TRUE)
  /\ UNCHANGED <<hasChatContainer, messages, recControls, recObservers,
                 recInitPending, recInitCalls, isRecording, recordedSession,
                 toggleText, indicatorActive, consentPending, savePending,
                 recSent, clicks, expected>>

\* the page appends a message node; every installed observer's callback runs
\* before anything else does
InsertMessage(p, role, content, top) ==
  /\ Len(messages) < MaxMsgs
  /\ LET node == [id |-> Len(messages) + 1, role |-> role, content |-> content,
                  attached |-> TRUE]
     IN /\ messages' = Append(messages, node)
        /\ recordedSession' =
             RunObservers(recObservers, p, isRecording, recordedSession, node, top)
        /\ expected' = IF isRecording THEN Append(expected, node.id) ELSE expected
  /\ lastEvent' = Event("insertMessage", TRUE)
  /\ UNCHANGED <<hasChatContainer, recControls, recObservers, recInitPending,
                 recInitCalls, isRecording, toggleText, indicatorActive,
                 consentPending, savePending, confirmations, recSent, clicks>>

\* the page removes message node i from the document; the observers'
\* callbacks run for a batch without added nodes
RemoveMessage(i) ==
  /\ i \in 1..Len(messages)
  /\ messages[i].attached
  /\ messages' = [messages EXCEPT ![i].attached = FALSE]
  /\ lastEvent' = Event("removeMessage", TRUE)
  /\ UNCHANGED <<hasChatContainer, recControls, recObservers, recInitPending,
                 recInitCalls, isRecording, recordedSession, toggleText,
                 indicatorActive, consentPending, savePending, confirmations,
                 recSent, clicks, expected>>

\* the page inserts a removed message node again; the observers' callbacks
\* run for it as for any added node
ReinsertMessage(p, i) ==
  /\ i \in 1..Len(messages)
  /\ ~messages[i].attached
  /\ Len(expected) <= MaxMsgs
  /\ messages' = [messages EXCEPT ![i].attached = TRUE]
  /\ recordedSession' =
       RunObservers(recObservers, p, isRecording, recordedSession,
                    messages[i], TRUE)
  /\ expected' = IF isRecording THEN Append(expected, messages[i].id)
                 ELSE expected
  /\ lastEvent' = Event("reinsertMessage", TRUE)
  /\ UNCHANGED <<hasChatContainer, recControls, recObservers, recInitPending,
                 recInitCalls, isRecording, toggleText, indicatorActive,
                 consentPending, savePending, confirmations, recSent, clicks>>

\* ------------------------------------------------------------------------
\* Syntax highlighter
\* ------------------------------------------------------------------------
HighlighterSelectorsDefined(p) == p \in Platforms

\* language-* class of an element: "" when it has none
LanguageClasses == {"", "js"}
\* grammars Prism.languages holds besides text
PrismGrammars == {"js"}

\* language of a code block: its own language-* class, else the one of a PRE
\* parent, else text
LanguageOf(block, parent) ==
  IF block.lang # "" THEN block.lang
  ELSE IF parent.isPre /\ parent.lang # "" THEN parent.lang
  ELSE "text"

\* Prism.highlight(code, Prism.languages[language] || Prism.languages.text,
\* language) throws when it is handed no grammar
HighlightThrowsNever(language, textGrammar) == FALSE

HighlightThrows(language, textGrammar) ==
  language \notin PrismGrammars /\ ~textGrammar

PrismAvailableAlways(prism) == TRUE

\* `if (window.Prism)`
PrismAvailable(prism) == prism

AlreadyProcessedNever(block) == FALSE

\* `codeBlock.classList.contains('prism-highlighted')`
AlreadyProcessed(block) == block.marked

\* body of the forEach for one code block: the new block, the new state of
\* its parent and whether highlightedCount was incremented
HighlightBlock(block, parent, prism, textGrammar) ==
  LET language == LanguageOf(block, parent)
      same == [block |-> block, parent |-> parent, counted |-> FALSE]
  IN IF AlreadyProcessed(block) THEN same
     ELSE IF ~PrismAvailable(prism) THEN same
     ELSE IF block.text = "empty" THEN same
     ELSE IF HighlightThrows(language, textGrammar) THEN same
     ELSE [block |-> [block EXCEPT !.highlighted = TRUE, !.marked = TRUE,
                                   !.transforms = @ + 1],
           parent |-> [parent EXCEPT
                         !.badges = IF language # "text" /\ parent.isPre
                                    THEN @ + 1 ELSE @,
                         !.copy = IF parent.isPre THEN TRUE ELSE @],
           counted |-> TRUE]

\* the forEach over querySelectorAll(codeBlockSelector), in document order
RECURSIVE HighlightLoop(_, _, _, _, _, _)
HighlightLoop(i, blocks, pars, count, prism, textGrammar) ==
  IF i > Len(blocks) THEN [blocks |-> blocks, parents |-> pars, count |-> count]
  ELSE LET r == HighlightBlock(blocks[i], pars[blocks[i].parent],
                               prism, textGrammar)
       IN HighlightLoop(i + 1,
                        [blocks EXCEPT ![i] = r.block],
                        [pars EXCEPT ![blocks[i].parent] = r.parent],
                        IF r.counted THEN count + 1 ELSE count,
                        prism, textGrammar)

\* initSyntaxHighlighter(p, isReinitialization) on the document
HighlightPass(p) ==
  /\ IF HighlighterSelectorsDefined(p)
     THEN LET r == HighlightLoop(1, codeBlocks, parents, 0,
                                 prismLoaded, hasTextGrammar)
          IN /\ codeBlocks' = r.blocks
             /\ parents' = r.parents
             /\ highlightedCount' = r.count
     ELSE UNCHANGED <<codeBlocks, parents, highlightedCount>>
  /\ UNCHANGED <<prismLoaded, hasTextGrammar>>

InitSyntaxHighlighter(p, isReinitialization) ==
  /\ lastEvent' = EventArg("highlightPass", TRUE, p)
  /\ HighlightPass(p)

NewBlock(par, lang, text) ==
  [parent |-> par, lang |-> lang, text |-> text,
   highlighted |-> FALSE, marked |-> FALSE, transforms |-> 0]

\* the page appends a code element, one the platform's selector matches,
\* under a new parent element
InsertCodeBlock(isPre, parLang, lang, text) ==
  /\ Len(codeBlocks) < MaxBlocks
  /\ parents' = Append(parents, [isPre |-> isPre, lang |-> parLang,
                                 badges |-> 0, copy |-> FALSE])
  /\ codeBlocks' = Append(codeBlocks,
                          NewBlock(Len(parents) + 1, lang, text))
  /\ lastEvent' = Event("insertCodeBlock", TRUE)
  /\ UNCHANGED <<prismLoaded, hasTextGrammar, highlightedCount>>

\* the page appends a code element under the parent of an existing one
InsertSiblingCodeBlock(par, lang, text) ==
  /\ Len(codeBlocks) < MaxBlocks
  /\ par \in 1..Len(parents)
  /\ codeBlocks' = Append(codeBlocks, NewBlock(par, lang, text))
  /\ lastEvent' = Event("insertCodeBlock", TRUE)
  /\ UNCHANGED <<prismLoaded, hasTextGrammar, parents, highlightedCount>>

\* the highlighting library finishes loading
LoadPrism ==
  /\ ~prismLoaded
  /\ prismLoaded' = TRUE
  /\ lastEvent' = Event("loadPrism", TRUE)
  /\ UNCHANGED <<hasTextGrammar, parents, codeBlocks, highlightedCount>>

\* ------------------------------------------------------------------------
\* Shared change observer
\* ------------------------------------------------------------------------
\* settings record: feature toggles, the session-recording sub-record
\* collapsed to its enabled flag, the theme, the custom command list
\* (hasCommands: the record has a `commands` key)
SettingsRecord(syntax, commandBar, recording, theme) ==
  [syntaxHighlighting |-> syntax, commandBarEnabled |-> commandBar,
   sessionRecording |-> recording, theme |-> theme,
   hasCommands |-> FALSE, commands |-> <<>>]

\* added nodes: a text node, and elements with or without the classes and
\* the attribute the predicate reads
TextNode == [element |-> FALSE, classes |-> {}, roleAttr |-> FALSE]
ElementNode(classes, roleAttr) ==
  [element |-> TRUE, classes |-> classes, roleAttr |-> roleAttr]
AddedNodeKinds ==
  {TextNode, ElementNode({}, FALSE), ElementNode({"markdown"}, FALSE),
   ElementNode({}, TRUE), ElementNode({"chat-message"}, FALSE)}

NodeMatchesAnyElement(p, node) == node.element

\* the platform-specific test on one added node
NodeMatches(p, node) ==
  /\ node.element
  /\ \/ p = "chatgpt" /\ ("markdown" \in node.classes \/ node.roleAttr)
     \/ p = "mistral" /\ "chat-message" \in node.classes

\* mutation.addedNodes.forEach
RECURSIVE ScanNodes(_, _, _, _)
ScanNodes(p, nodes, i, flag) ==
  IF i > Len(nodes) THEN flag
  ELSE ScanNodes(p, nodes, i + 1, IF NodeMatches(p, nodes[i]) THEN TRUE ELSE flag)

\* mutations.forEach: shouldCallback after the whole batch
RECURSIVE ScanMutations(_, _, _, _)
ScanMutations(p, batch, i, flag) ==
  IF i > Len(batch) THEN flag
  ELSE ScanMutations(p, batch, i + 1,
         IF batch[i].type = "childList" /\ Len(batch[i].addedNodes) > 0
         THEN ScanNodes(p, batch[i].addedNodes, 1, flag) ELSE flag)

RECURSIVE QualifyingNodes(_, _)
QualifyingNodes(p, batch) ==
  IF batch = <<>> THEN 0
  ELSE Cardinality({j \in 1..Len(Head(batch).addedNodes) :
                      NodeMatches(p, Head(batch).addedNodes[j])})
       + QualifyingNodes(p, Tail(batch))

CallbackPerMatch(p, batch) == QualifyingNodes(p, batch)

\* `if (shouldCallback) callback();`: callback invocations for one batch
CallbackInvocations(p, batch) ==
  IF ScanMutations(p, batch, 1, FALSE) THEN 1 ELSE 0

RECURSIVE BatchNodes(_)
BatchNodes(batch) ==
  IF batch = <<>> THEN 0
  ELSE Len(Head(batch).addedNodes) + BatchNodes(Tail(batch))

BatchSize(batch) == Len(batch) + BatchNodes(batch)

\* what a batch holds: no added node, added nodes none of which is an
\* element, or added elements
BatchKind(batch) ==
  IF BatchNodes(batch) = 0 THEN "removals"
  ELSE IF \A i \in 1..Len(batch) : \A j \in 1..Len(batch[i].addedNodes) :
            ~batch[i].addedNodes[j].element
       THEN "nodes"
       ELSE "elements"

\* observeDOMChanges(p, callback): one more observer on document.body
ObserveDOMChanges(p) ==
  /\ sharedObservers < MaxInits
  /\ sharedObservers' = sharedObservers + 1
  /\ lastEvent' = Event("observeDOMChanges", TRUE)
  /\ UNCHANGED <<settings, pendingBatch, callbackRuns>>

\* the page changes a child list under the body: a new mutation record,
\* so far without added nodes (a removal)
QueueMutation ==
  /\ sharedObservers > 0
  /\ BatchSize(pendingBatch) < MaxBatchSize
  /\ pendingBatch' = Append(pendingBatch,
                            [type |-> "childList", addedNodes |-> <<>>])
  /\ lastEvent' = Event("queueMutation", TRUE)
  /\ UNCHANGED <<settings, sharedObservers, callbackRuns>>

\* the same change adds one more node
QueueAddedNode(node) ==
  /\ pendingBatch # <<>>
  /\ BatchSize(pendingBatch) < MaxBatchSize
  /\ pendingBatch' =
       [pendingBatch EXCEPT ![Len(pendingBatch)].addedNodes = Append(@, node)]
  /\ lastEvent' = Event("queueMutation", TRUE)
  /\ UNCHANGED <<settings, sharedObservers, callbackRuns>>

\* the callback initializeExtension hands to observeDOMChanges, run n times
RECURSIVE ReapplyFeatures(_, _, _)
ReapplyFeatures(n, p, st) ==
  IF n = 0 \/ ~settings.syntaxHighlighting \/ ~HighlighterSelectorsDefined(p)
  THEN st
  ELSE ReapplyFeatures(n - 1, p,
         HighlightLoop(1, st.blocks, st.parents, 0, prismLoaded, hasTextGrammar))

\* nodes a highlighter pass adds: the elements and text of the markup that
\* replaces a block's content, the language badge and the copy button
TokenSpan == ElementNode({"token"}, FALSE)
LanguageBadge == ElementNode({"code-language-indicator"}, FALSE)
CopyButton == ElementNode({"code-copy-button"}, FALSE)
HighlighterNodes == {TextNode, TokenSpan, LanguageBadge, CopyButton}

\* elements the other modules append: theme control, command bar, its toggle
\* button, a command button, recording controls, save confirmation
ModuleNodes ==
  {ElementNode({c}, FALSE) :
     c \in {"theme-control", "quick-command-bar", "command-bar-toggle",
            "command-button", "recording-controls",
            "session-save-confirmation"}}

ChildListRecord(nodes) == [type |-> "childList", addedNodes |-> nodes]

\* records of `codeBlock.innerHTML = highlightedHTML` for the blocks a pass
\* transformed
RECURSIVE ContentRecords(_, _, _)
ContentRecords(before, after, i) ==
  IF i > Len(before) THEN <<>>
  ELSE (IF after[i].transforms > before[i].transforms
        THEN <<ChildListRecord(<<TokenSpan, TextNode>>)>> ELSE <<>>)
       \o ContentRecords(before, after, i + 1)

\* records of the appendChild calls on the blocks' parents
RECURSIVE ParentRecords(_, _, _)
ParentRecords(before, after, j) ==
  IF j > Len(before) THEN <<>>
  ELSE [k \in 1..(after[j].badges - before[j].badges) |->
          ChildListRecord(<<LanguageBadge>>)]
       \o (IF after[j].copy /\ ~before[j].copy
           THEN <<ChildListRecord(<<CopyButton>>)>> ELSE <<>>)
       \o ParentRecords(before, after, j + 1)

\* the child-list changes of the passes a delivery ran, as the observers
\* are handed them next
PassRecords(st) ==
  ContentRecords(codeBlocks, st.blocks, 1) \o ParentRecords(parents, st.parents, 1)

\* the queued records are delivered as one batch to every installed
\* observer; what the callbacks change is queued in turn
DeliverBatch(p) ==
  /\ pendingBatch # <<>>
  /\ callbackRuns' = sharedObservers * CallbackInvocations(p, pendingBatch)
  /\ LET st == ReapplyFeatures(callbackRuns', p,
                 [blocks |-> codeBlocks, parents |-> parents,
                  count |-> highlightedCount])
     IN /\ codeBlocks' = st.blocks
        /\ parents' = st.parents
        /\ highlightedCount' = st.count
        /\ pendingBatch' = PassRecords(st)
  /\ lastEvent' = EventArg("deliverBatch", callbackRuns' > 0,
                           BatchKind(pendingBatch))
  /\ UNCHANGED <<settings, sharedObservers, prismLoaded, hasTextGrammar>>


\* the page appends a message element holding a code block
PageInsertsMessage(p, isPre, lang, text) ==
  /\ sharedObservers > 0
  /\ Len(codeBlocks) < MaxBlocks
  /\ parents' = Append(parents, [isPre |-> isPre, lang |-> "",
                                 badges |-> 0, copy |-> FALSE])
  /\ codeBlocks' = Append(codeBlocks, NewBlock(Len(parents) + 1, lang, text))
  /\ pendingBatch' =
       Append(pendingBatch,
              ChildListRecord(<<IF p = "chatgpt" THEN ElementNode({}, TRUE)
                                ELSE ElementNode({"chat-message"}, FALSE)>>))
  /\ lastEvent' = Event("pageInsert", TRUE)
  /\ UNCHANGED <<settings, sharedObservers, callbackRuns, prismLoaded,
                 hasTextGrammar, highlightedCount, callbackTotal,
                 moduleInserts>>

\* the theme, command-bar or recorder module appends one of its elements
ModuleInserts(node) ==
  /\ sharedObservers > 0
  /\ moduleInserts < MaxModuleInserts
  /\ moduleInserts' = moduleInserts + 1
  /\ pendingBatch' = Append(pendingBatch, ChildListRecord(<<node>>))
  /\ lastEvent' = Event("moduleInsert", TRUE)
  /\ UNCHANGED <<settings, sharedObservers, callbackRuns, hlVars,
                 callbackTotal>>

\* a delivery, with the callback runs counted
DeliverAndCount(p) ==
  /\ DeliverBatch(p)
  /\ callbackTotal' = callbackTotal + callbackRuns'
  /\ UNCHANGED moduleInserts
\* ------------------------------------------------------------------------
\* Extension runtime: requests to the background, its replies and broadcasts
\* ------------------------------------------------------------------------
\* getSettings() resolves to {} when the reply is missing
NoSettings == SettingsRecord(FALSE, FALSE, "undefined", "undefined")

\* the record the onInstalled listener stores
DefaultSettings == SettingsRecord(TRUE, TRUE, "disabled", "light")

\* requests sent with chrome.runtime.sendMessage; `tag` names the
\* continuation waiting for the reply
GetSettingsMsg(t, tag) ==
  [type |-> "GET_SETTINGS", from |-> t, tag |-> tag, theme |-> "",
   settings |-> NoSettings]
SaveThemeMsg(t, theme) ==
  [type |-> "SAVE_SETTINGS", from |-> t, tag |-> "theme", theme |-> theme,
   settings |-> NoSettings]
SaveCommandsMsg(t, st) ==
  [type |-> "SAVE_SETTINGS", from |-> t, tag |-> "commands", theme |-> "",
   settings |-> st]
ApplyThemeMsg(t, theme) ==
  [type |-> "APPLY_THEME", from |-> t, tag |-> "theme", theme |-> theme,
   settings |-> NoSettings]

\* what reaches a tab
SettingsReply(tag, st) ==
  [type |-> "SETTINGS", tag |-> tag, theme |-> "", settings |-> st,
   answered |-> TRUE]
ThemeChangedMsg(theme) ==
  [type |-> "THEME_CHANGED", tag |-> "theme", theme |-> theme,
   settings |-> NoSettings, answered |-> TRUE]

\* the sendMessage callback run without a response
NoResponse(tag) ==
  [type |-> "SETTINGS", tag |-> tag, theme |-> "", settings |-> NoSettings,
   answered |-> FALSE]

\* getSettings(): `response || {}`
getSettings(reply) == IF reply.answered THEN reply.settings ELSE NoSettings

\* SAVE_SETTINGS: the keys the request carries replace the stored ones
MergeSettings(stored, msg) ==
  IF msg.tag = "theme" THEN [stored EXCEPT !.theme = msg.theme]
  ELSE msg.settings

\* the background handles the oldest request: GET_SETTINGS is answered with
\* the stored record, SAVE_SETTINGS is merged into it, APPLY_THEME is
\* broadcast as THEME_CHANGED to every tab
BackgroundStep ==
  /\ bus # <<>>
  /\ LET msg == Head(bus)
     IN /\ bus' = Tail(bus)
        /\ inbox' =
             CASE msg.type = "GET_SETTINGS" ->
                    [inbox EXCEPT ![msg.from] =
                       Append(@, SettingsReply(msg.tag, storedSettings))]
               [] msg.type = "APPLY_THEME" ->
                    [t \in Tabs |-> Append(inbox[t], ThemeChangedMsg(msg.theme))]
               [] OTHER -> inbox
        /\ storedSettings' = IF msg.type = "SAVE_SETTINGS"
                             THEN MergeSettings(storedSettings, msg)
                             ELSE storedSettings
        /\ lastEvent' = EventArg("background", TRUE, msg.type)
  /\ UNCHANGED themeChanges

\* the oldest request is a GET_SETTINGS and nothing answers it: the
\* sender's callback runs without a response
BackgroundUnavailable ==
  /\ bus # <<>>
  /\ Head(bus).type = "GET_SETTINGS"
  /\ bus' = Tail(bus)
  /\ inbox' = [inbox EXCEPT ![Head(bus).from] =
                 Append(@, NoResponse(Head(bus).tag))]
  /\ lastEvent' = EventArg("noResponse", FALSE, Head(bus).tag)
  /\ UNCHANGED <<storedSettings, themeChanges>>
\* ------------------------------------------------------------------------
\* Theme manager
\* ------------------------------------------------------------------------
AvailableThemes == {"light", "dark", "high-contrast", "custom"}

ThemeSelectorsDefined(p) == p \in Platforms

ThemeClass(theme) == "theme-" \o theme
ThemeMarkerClasses == {ThemeClass(th) : th \in AvailableThemes}
PrismClasses == {"prism-light", "prism-dark", "prism-high-contrast"}

\* theme state of a page before initThemeManager ran
NewThemeState ==
  [currentTheme |-> "light",
   themeStylesheet |-> 0,      \* position in headLinks of the link the
                               \* module variable refers to; 0 for null
   headLinks |-> <<>>,         \* themes the theme links of the head point at
   bodyClasses |-> {},
   themeControl |-> FALSE,     \* .theme-control element present
   selectorValue |-> "",       \* value of the .theme-selector
   applied |-> <<>>]           \* the theme applyTheme was last called with

\* `themeStylesheet.remove()` when the variable is not null
RemoveLink(links, i) ==
  IF i = 0 THEN links
  ELSE [j \in 1..(Len(links) - 1) |-> IF j < i THEN links[j] ELSE links[j + 1]]

RemoveThemeClassesNone(classes) == classes

\* `classList.remove('theme-light', 'theme-dark', 'theme-high-contrast',
\* 'theme-custom')`
RemoveThemeClasses(classes) == classes \ ThemeMarkerClasses

updateSyntaxHighlighterThemeAddOnly(classes, theme) ==
  classes \cup
    {CASE theme = "dark" -> "prism-dark"
       [] theme = "high-contrast" -> "prism-high-contrast"
       [] OTHER -> "prism-light"}

\* updateSyntaxHighlighterTheme(theme), on the body's class list
updateSyntaxHighlighterTheme(classes, theme) ==
  (classes \ PrismClasses) \cup
    {CASE theme = "dark" -> "prism-dark"
       [] theme = "high-contrast" -> "prism-high-contrast"
       [] OTHER -> "prism-light"}

\* assigning a select's value: a value none of its options has selects none
SelectValue(theme) == IF theme \in AvailableThemes THEN theme ELSE ""

\* applyTheme(platform, theme)
applyTheme(ts, theme) ==
  LET links == Append(RemoveLink(ts.headLinks, ts.themeStylesheet), theme)
  IN [ts EXCEPT
        !.currentTheme = theme,
        !.headLinks = links,
        !.themeStylesheet = Len(links),
        !.bodyClasses =
           updateSyntaxHighlighterTheme(
             RemoveThemeClasses(@) \cup {ThemeClass(theme)}, theme),
        !.selectorValue = IF ts.themeControl THEN SelectValue(theme) ELSE @,
        !.applied = <<theme>>]

\* createThemeControl(platform)
createThemeControl(ts) ==
  [ts EXCEPT !.themeControl = TRUE,
             !.selectorValue = SelectValue(ts.currentTheme)]

\* the default of the parameter `initialTheme = 'light'`
InitialTheme(theme) == IF theme = "undefined" THEN "light" ELSE theme

\* initThemeManager(platform, initialTheme)
initThemeManager(ts, p, initialTheme) ==
  IF ~ThemeSelectorsDefined(p) THEN ts
  ELSE applyTheme(IF ts.themeControl THEN ts ELSE createThemeControl(ts),
                  InitialTheme(initialTheme))

\* initThemeManager run once by each of n registered listeners
RECURSIVE ThemeListenersRun(_, _, _, _)
ThemeListenersRun(n, ts, p, theme) ==
  IF n = 0 THEN ts
  ELSE ThemeListenersRun(n - 1, initThemeManager(ts, p, theme), p, theme)

SelectorChangeFiresAlways(byUser) == TRUE

\* the selector's change event: fired when the user picks an option, not
\* when applyTheme assigns `themeSelector.value`
SelectorChangeFires(byUser) == byUser

\* the requests of the change handler for a selector set to theme
ChangeHandlerRequests(t, theme, byUser) ==
  IF SelectorChangeFires(byUser)
  THEN <<SaveThemeMsg(t, theme), ApplyThemeMsg(t, theme)>>
  ELSE <<>>

\* the user picks another option of the theme selector of tab t: the change
\* handler applies the theme, saves it and asks for the broadcast
UserSelectTheme(t, theme) ==
  /\ themeState[t].themeControl
  /\ theme # themeState[t].selectorValue
  /\ themeChanges < MaxChanges
  /\ themeChanges' = themeChanges + 1
  /\ themeState' = [themeState EXCEPT ![t] = applyTheme(@, theme)]
  /\ bus' = bus \o ChangeHandlerRequests(t, theme, TRUE)
  /\ lastEvent' = EventArg("selectTheme", TRUE, theme)
  /\ UNCHANGED <<inbox, storedSettings>>

\* initThemeManager(p, theme) called on the observed tab
InitThemeManagerCall(p, theme) ==
  /\ themeState' = [themeState EXCEPT
                      ![ObservedTab] = initThemeManager(@, p, theme)]
  /\ lastEvent' = EventArg("initThemeManager", ThemeSelectorsDefined(p), p)

\* theme values a settings record or a THEME_CHANGED message can carry
\* besides the four names: null, the empty string, an unknown name
ForeignThemes == {"null", "", "neon"}

\* a THEME_CHANGED notification for tab t that no selector of these tabs
\* asked for (APPLY_THEME sent by another page of the extension)
ThemeChangedArrives(t, theme) ==
  /\ themeChanges < MaxChanges
  /\ themeChanges' = themeChanges + 1
  /\ inbox' = [inbox EXCEPT ![t] = Append(@, ThemeChangedMsg(theme))]
  /\ lastEvent' = EventArg("themeChangedSent", TRUE, theme)
  /\ UNCHANGED <<bus, storedSettings, themeState>>

\* ------------------------------------------------------------------------
\* Command bar
\* ------------------------------------------------------------------------
\* PLATFORM_SELECTORS
CommandBarSelectors(p) ==
  IF p = "chatgpt"
  THEN [inputArea |-> "textarea",
        submitButton |-> "button[data-testid=send-button]"]
  ELSE [inputArea |-> ".chat-input textarea",
        submitButton |-> ".chat-input button[type=submit]"]

CommandBarSelectorsDefined(p) == p \in Platforms

\* the controls a page can hold: a text area outside and inside a
\* .chat-input element, a button with data-testid="send-button", a submit
\* button inside a .chat-input element
TextAreas == {"textarea", "chatInputTextarea"}
ControlKinds == TextAreas \cup {"sendButton", "chatInputSubmit"}

SelectorMatches(sel, kind) ==
  CASE sel = "textarea" -> kind \in TextAreas
    [] sel = ".chat-input textarea" -> kind = "chatInputTextarea"
    [] sel = "button[data-testid=send-button]" -> kind = "sendButton"
    [] sel = ".chat-input button[type=submit]" -> kind = "chatInputSubmit"
    [] OTHER -> FALSE

\* document.querySelector: position of the first match in document order,
\* 0 for null
QuerySelector(dom, sel) ==
  IF \E i \in 1..Len(dom) : SelectorMatches(sel, dom[i])
  THEN CHOOSE i \in 1..Len(dom) :
         /\ SelectorMatches(sel, dom[i])
         /\ \A j \in 1..(i - 1) : ~SelectorMatches(sel, dom[j])
  ELSE 0

\* DEFAULT_COMMANDS
DefaultCommands ==
  << [name |-> "Explain", text |-> "Explain this in simple terms: "],
     [name |-> "Summarize", text |-> "Summarize this text: "],
     [name |-> "Translate", text |-> "Translate this to English: "],
     [name |-> "Code", text |-> "Write code to: "],
     [name |-> "Fix", text |-> "Fix this code: "] >>

\* a command button: its label, what its click handler closes over, and
\* whether addCustomCommand (not createCommandBarUI) made it
CommandButton(name, text, sel, added) ==
  [name |-> name, text |-> text, sel |-> sel, added |-> added]

\* the selector set the click handler of a button added by addCustomCommand
\* uses: `PLATFORM_SELECTORS.chatgpt || PLATFORM_SELECTORS.mistral`
CustomButtonSelectors == "chatgpt"

\* toggleCommandBar, run n times, on <<isCommandBarVisible, style.display>>
RECURSIVE toggleCommandBar(_, _)
toggleCommandBar(n, vis) ==
  IF n = 0 THEN vis
  ELSE toggleCommandBar(n - 1, [visible |-> ~vis.visible,
                                display |-> IF ~vis.visible THEN "block"
                                            ELSE "none"])

BarState == [visible |-> isCommandBarVisible, display |-> barDisplay]

\* executeCommand(commandText, selectors)
executeCommand(text, sel) ==
  LET inputArea == QuerySelector(pageControls, CommandBarSelectors(sel).inputArea)
      submitButton ==
        QuerySelector(pageControls, CommandBarSelectors(sel).submitButton)
  IN IF inputArea # 0 /\ submitButton # 0
     THEN /\ inputValue' = [inputValue EXCEPT ![pageControls[inputArea]] = text]
          /\ inputEvents' = [inputEvents EXCEPT ![pageControls[inputArea]] = @ + 1]
          /\ isCommandBarVisible' = toggleCommandBar(1, BarState).visible
          /\ barDisplay' = toggleCommandBar(1, BarState).display
     ELSE UNCHANGED <<inputValue, inputEvents, isCommandBarVisible, barDisplay>>

CommandsOnInitMerged(st, current) ==
  IF st.hasCommands THEN current \o st.commands ELSE current

\* `if (settings.commands) { commands = settings.commands; }`
CommandsOnInit(st, current) ==
  IF st.hasCommands THEN st.commands ELSE current

WithCommandsKept(st, cmds) == st

\* `settings.commands = commands`
WithCommands(st, cmds) == [st EXCEPT !.hasCommands = TRUE, !.commands = cmds]

\* initCommandBar(p) up to its `await getSettings()`
InitCommandBarStart(p) ==
  /\ cbInitCalls' = IF CommandBarSelectorsDefined(p)
                    THEN cbInitCalls + 1 ELSE cbInitCalls
  /\ UNCHANGED <<orphanButtons, pageControls, inputValue, inputEvents, commands, cbBars,
                 buttons, isCommandBarVisible, barDisplay, keyListeners,
                 cbToggle, cbAdds, cbExecs>>

CommandBarRequests(p) ==
  IF CommandBarSelectorsDefined(p)
  THEN <<GetSettingsMsg(ObservedTab, "initCommandBar")>> ELSE <<>>

InitCommandBarCall(p) ==
  /\ cbInitCalls < MaxInits
  /\ InitCommandBarStart(p)
  /\ bus' = bus \o CommandBarRequests(p)
  /\ lastEvent' = EventArg("initCommandBar", CommandBarSelectorsDefined(p), p)
  /\ UNCHANGED <<inbox, storedSettings, themeChanges>>

\* initCommandBar after getSettings() answered: the stored command list
\* replaces the list, createCommandBarUI builds a new bar with one button
\* per command and adds the toggle button, the key listener is registered
InitCommandBarResume(p) ==
  /\ inbox[ObservedTab] # <<>>
  /\ Head(inbox[ObservedTab]).type = "SETTINGS"
  /\ Head(inbox[ObservedTab]).tag = "initCommandBar"
  /\ inbox' = [inbox EXCEPT ![ObservedTab] = Tail(@)]
  /\ LET st == getSettings(Head(inbox[ObservedTab]))
         cmds == CommandsOnInit(st, commands)
     IN /\ commands' = cmds
        /\ buttons' = [i \in 1..Len(cmds) |->
                         CommandButton(cmds[i].name, cmds[i].text, p, FALSE)]
  /\ cbBars' = cbBars + 1
  /\ orphanButtons' = orphanButtons + Len(buttons)
  /\ barDisplay' = "none"
  /\ cbToggle' =
       (cbToggle \/ QuerySelector(pageControls, CommandBarSelectors(p).inputArea) # 0)
  /\ keyListeners' = keyListeners + 1
  /\ lastEvent' = EventArg("initCommandBarResume", TRUE, p)
  /\ UNCHANGED <<pageControls, inputValue, inputEvents, isCommandBarVisible,
                 cbInitCalls, cbAdds, cbExecs, bus, storedSettings, themeChanges>>

\* Ctrl+Space: every registered key listener toggles the bar
KeyToggle ==
  /\ keyListeners > 0
  /\ isCommandBarVisible' = toggleCommandBar(keyListeners, BarState).visible
  /\ barDisplay' = toggleCommandBar(keyListeners, BarState).display
  /\ lastEvent' = Event("keyToggle", TRUE)
  /\ UNCHANGED <<orphanButtons, pageControls, inputValue, inputEvents, commands, cbBars,
                 buttons, keyListeners, cbToggle, cbInitCalls, cbAdds, cbExecs>>

\* click on the toggle button next to the input, or on the close button of
\* the displayed bar
ClickToggle(close) ==
  /\ IF close THEN barDisplay = "block" ELSE cbToggle
  /\ isCommandBarVisible' = toggleCommandBar(1, BarState).visible
  /\ barDisplay' = toggleCommandBar(1, BarState).display
  /\ lastEvent' = Event("clickToggle", close)
  /\ UNCHANGED <<orphanButtons, pageControls, inputValue, inputEvents, commands, cbBars,
                 buttons, keyListeners, cbToggle, cbInitCalls, cbAdds, cbExecs>>

\* click on the i-th command button of the displayed bar
ClickCommand(i) ==
  /\ barDisplay = "block"
  /\ i \in 1..Len(buttons)
  /\ cbExecs < MaxExecs
  /\ cbExecs' = cbExecs + 1
  /\ executeCommand(buttons[i].text, buttons[i].sel)
  /\ lastEvent' = EventArg("clickCommand", ~buttons[i].added, buttons[i].text)
  /\ UNCHANGED <<orphanButtons, pageControls, commands, cbBars, buttons, keyListeners,
                 cbToggle, cbInitCalls, cbAdds>>

\* click on Add with a name and a text: addCustomCommand up to its
\* `await getSettings()`
AddCustomCommand(name, text) ==
  /\ barDisplay = "block"
  /\ cbAdds < MaxCustom
  /\ cbAdds' = cbAdds + 1
  /\ commands' = Append(commands, [name |-> name, text |-> text])
  /\ buttons' = Append(buttons,
                     CommandButton(name, text, CustomButtonSelectors, TRUE))
  /\ bus' = Append(bus, GetSettingsMsg(ObservedTab, "addCustomCommand"))
  /\ lastEvent' = EventArg("addCustomCommand", TRUE, name)
  /\ UNCHANGED <<orphanButtons, pageControls, inputValue, inputEvents, cbBars,
                 isCommandBarVisible, barDisplay, keyListeners, cbToggle,
                 cbInitCalls, cbExecs, inbox, storedSettings, themeChanges>>

\* addCustomCommand after getSettings() answered: the whole command list is
\* put into the fetched record and the record is sent to be saved
AddCustomCommandResume ==
  /\ inbox[ObservedTab] # <<>>
  /\ Head(inbox[ObservedTab]).type = "SETTINGS"
  /\ Head(inbox[ObservedTab]).tag = "addCustomCommand"
  /\ inbox' = [inbox EXCEPT ![ObservedTab] = Tail(@)]
  /\ bus' = Append(bus, SaveCommandsMsg(ObservedTab,
                     WithCommands(getSettings(Head(inbox[ObservedTab])),
                                  commands)))
  /\ lastEvent' = Event("addCustomCommandResume", TRUE)
  /\ UNCHANGED <<cbVars, storedSettings, themeChanges>>

\* ------------------------------------------------------------------------
\* Host orchestrator
\* ------------------------------------------------------------------------
Hosts == {"chat.openai.com", "mistral.ai"}
Fingerprints == {"markdown", "chat-message"}

detectChatbotPlatformDomFirst(url, dom) ==
  IF "markdown" \in dom THEN "chatgpt"
  ELSE IF "chat-message" \in dom THEN "mistral"
  ELSE IF "chat.openai.com" \in url THEN "chatgpt"
  ELSE IF "mistral.ai" \in url THEN "mistral"
  ELSE "null"

\* detectChatbotPlatform(): url is the set of host names the address
\* contains, dom the set of fingerprint classes the document holds
detectChatbotPlatform(url, dom) ==
  IF "chat.openai.com" \in url THEN "chatgpt"
  ELSE IF "mistral.ai" \in url THEN "mistral"
  ELSE IF "markdown" \in dom THEN "chatgpt"
  ELSE IF "chat-message" \in dom THEN "mistral"
  ELSE "null"

PlatformMissingNever(p) == FALSE

\* `if (!platform) { ...; return; }` of initializeExtension
PlatformMissing(p) == p = "null"

\* initializeExtension in tab t up to its `await getSettings()`
InitializeExtension(t) ==
  /\ initCalls[t] < MaxInits
  /\ initCalls' = [initCalls EXCEPT ![t] = @ + 1]
  /\ LET p == detectChatbotPlatform(pageUrl, pageDom)
     IN /\ bus' = IF PlatformMissing(p) THEN bus
                  ELSE Append(bus, GetSettingsMsg(t, "initializeExtension"))
        /\ lastEvent' = EventArg("initializeExtension", p \in Platforms, p)
  /\ UNCHANGED <<pageUrl, pageDom, awaitConsent, initDone, initFailed,
                 themeListeners, inbox, storedSettings, themeChanges,
                 recVars, hlVars, obsVars, thVars, cbVars, stoVars, fbVars>>

\* the end of initializeExtension: observeDOMChanges installs the shared
\* observer and the runtime message listener is registered
FinishInit(t) ==
  /\ sharedObservers' = IF t = ObservedTab THEN sharedObservers + 1
                        ELSE sharedObservers
  /\ themeListeners' = [themeListeners EXCEPT ![t] = @ + 1]
  /\ initDone' = [initDone EXCEPT ![t] = @ + 1]

\* initializeExtension in tab t after getSettings() answered: the enabled
\* features are started in order; reading `settings.sessionRecording.enabled`
\* of a record without that key throws and ends the call in its catch; with
\* recording enabled the call waits for checkConsent()
ReceiveSettings(t) ==
  /\ inbox[t] # <<>>
  /\ Head(inbox[t]).type = "SETTINGS"
  /\ Head(inbox[t]).tag = "initializeExtension"
  /\ inbox' = [inbox EXCEPT ![t] = Tail(@)]
  /\ LET st == getSettings(Head(inbox[t]))
         observed == t = ObservedTab
         rec == st.sessionRecording
     IN /\ settings' = IF observed THEN st ELSE settings
        /\ IF observed /\ st.syntaxHighlighting
           THEN HighlightPass(platform) ELSE UNCHANGED hlVars
        /\ themeState' = [themeState EXCEPT
                            ![t] = initThemeManager(@, platform, st.theme)]
        /\ IF observed /\ st.commandBarEnabled
           THEN /\ InitCommandBarStart(platform)
                /\ bus' = bus \o CommandBarRequests(platform)
           ELSE UNCHANGED <<cbVars, bus>>
        /\ initFailed' = [initFailed EXCEPT
                            ![t] = IF rec = "undefined" THEN @ + 1 ELSE @]
        /\ awaitConsent' = [awaitConsent EXCEPT
                              ![t] = IF rec = "enabled" THEN @ + 1 ELSE @]
        /\ IF rec = "disabled" THEN FinishInit(t)
           ELSE UNCHANGED <<sharedObservers, themeListeners, initDone>>
        /\ lastEvent' = EventArg("receiveSettings", rec # "undefined", rec)
  /\ UNCHANGED <<pageUrl, pageDom, initCalls, storedSettings, themeChanges,
                 recVars, pendingBatch, callbackRuns, stoVars, fbVars>>

\* checkConsent() answered: initSessionRecorder is started when consent was
\* given, then the call runs to its end
ConsentChecked(t, hasConsent) ==
  /\ awaitConsent[t] > 0
  /\ awaitConsent' = [awaitConsent EXCEPT ![t] = @ - 1]
  /\ IF hasConsent /\ t = ObservedTab
     THEN InitSessionRecorderStart(platform) ELSE UNCHANGED recVars
  /\ FinishInit(t)
  /\ lastEvent' = Event("consentChecked", hasConsent)
  /\ UNCHANGED <<pageUrl, pageDom, initCalls, initFailed, settings,
                 pendingBatch, callbackRuns, hlVars, netVars, thVars, cbVars,
                 stoVars, fbVars>>

\* a THEME_CHANGED notification reaches tab t: every registered listener
\* runs initThemeManager with the theme; without a listener it is lost
ReceiveThemeChanged(t) ==
  /\ inbox[t] # <<>>
  /\ Head(inbox[t]).type = "THEME_CHANGED"
  /\ inbox' = [inbox EXCEPT ![t] = Tail(@)]
  /\ themeState' = [themeState EXCEPT
                      ![t] = ThemeListenersRun(themeListeners[t], @, platform,
                                               Head(inbox[t]).theme)]
  /\ bus' = IF themeListeners[t] > 0 /\ themeState'[t].themeControl
            THEN bus \o ChangeHandlerRequests(t, Head(inbox[t]).theme, FALSE)
            ELSE bus
  /\ lastEvent' = EventArg("themeChanged", themeListeners[t] > 0,
                           Head(inbox[t]).theme)
  /\ UNCHANGED <<storedSettings, themeChanges>>

\* a call of detectChatbotPlatform() on the page as it is
DetectPlatform ==
  /\ platform' = detectChatbotPlatform(pageUrl, pageDom)
  /\ lastEvent' = EventArg("detectChatbotPlatform", platform' # "null", platform')
  /\ UNCHANGED orcVars

\* the page renders or drops elements: the fingerprint classes its document
\* holds become dom
PageRenders(dom) ==
  /\ dom # pageDom
  /\ pageDom' = dom
  /\ lastEvent' = Event("render", TRUE)
  /\ UNCHANGED <<platform, pageUrl, initCalls, awaitConsent, initDone,
                 initFailed, themeListeners>>

\* the page changes its address without a reload
PageNavigates(url) ==
  /\ url # pageUrl
  /\ pageUrl' = url
  /\ lastEvent' = Event("navigate", TRUE)
  /\ UNCHANGED <<platform, pageDom, initCalls, awaitConsent, initDone,
                 initFailed, themeListeners>>
\* ------------------------------------------------------------------------
\* Persisted sessions: deleteSession (utils/storage.js) and the retention
\* cleanup run by the sessionCleanup alarm (content/content.js)
\* ------------------------------------------------------------------------
SessionIds == <<"s1", "s2", "s3">>

\* retentionDays of the defaults written at installation
DefaultRetentionDays == 7

\* a session's timestamp, as the number of days it lies before now
Ages == {DefaultRetentionDays - 1, DefaultRetentionDays,
         DefaultRetentionDays + 1}

\* settings.sessionRecording: absent, or autoDelete with retentionDays
NoPolicy == [present |-> FALSE, autoDelete |-> FALSE,
             retentionDays |-> DefaultRetentionDays]

Policies ==
  {NoPolicy} \cup [present : {TRUE}, autoDelete : BOOLEAN,
                   retentionDays : {DefaultRetentionDays - 1,
                                    DefaultRetentionDays}]

\* the lists the background page can have saved: distinct ids, any ages
SessionLists ==
  UNION {[1..n -> Ages] : n \in 0..Len(SessionIds)}

StoredSessions(ages) ==
  [i \in 1..Len(ages) |-> [id |-> SessionIds[i], age |-> ages[i]]]

IdsOf(list) == {list[i].id : i \in 1..Len(list)}

\* getSessions: data.sessions || []
getSessions(stored) == stored

\* sessions.filter(session => session.id !== sessionId)
WithoutSession(list, sessionId) ==
  LET keep(s) == s.id # sessionId IN SelectSeq(list, keep)

\* new Date(session.timestamp) >= cutoffDate, the cutoff lying retentionDays
\* before now
NotExpiredStrict(session, retentionDays) == session.age < retentionDays

NotExpired(session, retentionDays) == session.age <= retentionDays

FilterExpired(list, retentionDays) ==
  LET keep(s) == NotExpired(s, retentionDays) IN SelectSeq(list, keep)

\* settings?.sessionRecording?.autoDelete
AutoDelete(policy) == policy.present /\ policy.autoDelete

RemoveOp(ops, k) == [i \in 1..(Len(ops) - 1) |-> IF i < k THEN ops[i] ELSE ops[i + 1]]

\* deleteSession(sessionId) up to the answer of its getSessions() await: the
\* list is read now and written back by a later step
DeleteSessionRead(sessionId) ==
  /\ opsStarted < MaxStorageOps
  /\ opsStarted' = opsStarted + 1
  /\ storageOps' = Append(storageOps,
                          [kind |-> "delete", id |-> sessionId,
                           stage |-> "write",
                           list |-> getSessions(sessions)])
  /\ lastEvent' = EventArg("deleteSession", TRUE, sessionId)
  /\ UNCHANGED <<sessions, retentionPolicy, completedDeletes>>

\* chrome.storage.local.set({sessions: filteredSessions}) of deleteSession
\* and its resolve(true)
DeleteSessionWrite(k) ==
  /\ k \in 1..Len(storageOps)
  /\ storageOps[k].kind = "delete"
  /\ sessions' = WithoutSession(storageOps[k].list, storageOps[k].id)
  /\ completedDeletes' = completedDeletes \cup {storageOps[k].id}
  /\ storageOps' = RemoveOp(storageOps, k)
  /\ lastEvent' = EventArg("deleteSessionDone", TRUE, storageOps[k].id)
  /\ UNCHANGED <<retentionPolicy, opsStarted>>

\* the sessionCleanup alarm: cleanupOldSessions reads the settings and, with
\* autoDelete set, asks for the sessions list
CleanupAlarm ==
  /\ opsStarted < MaxStorageOps
  /\ opsStarted' = opsStarted + 1
  /\ storageOps' = IF AutoDelete(retentionPolicy)
                   THEN Append(storageOps,
                               [kind |-> "cleanup", id |-> "",
                                stage |-> "read", list |-> <<>>])
                   ELSE storageOps
  /\ lastEvent' = EventArg("cleanupAlarm", AutoDelete(retentionPolicy), "")
  /\ UNCHANGED <<sessions, retentionPolicy, completedDeletes>>

\* the chrome.storage.local.get callback of cleanupOldSessions
CleanupRead(k) ==
  /\ k \in 1..Len(storageOps)
  /\ storageOps[k].kind = "cleanup"
  /\ storageOps[k].stage = "read"
  /\ storageOps' = [storageOps EXCEPT ![k].stage = "write",
                                      ![k].list = sessions]
  /\ lastEvent' = EventArg("cleanupRead", TRUE, "")
  /\ UNCHANGED <<sessions, retentionPolicy, opsStarted, completedDeletes>>

\* chrome.storage.local.set({sessions: filteredSessions}) of the cleanup
CleanupWrite(k) ==
  /\ k \in 1..Len(storageOps)
  /\ storageOps[k].kind = "cleanup"
  /\ storageOps[k].stage = "write"
  /\ sessions' = FilterExpired(storageOps[k].list,
                               retentionPolicy.retentionDays)
  /\ storageOps' = RemoveOp(storageOps, k)
  /\ lastEvent' = EventArg("cleanupDone", TRUE, "")
  /\ UNCHANGED <<retentionPolicy, opsStarted, completedDeletes>>

\* ------------------------------------------------------------------------
\* Specifications
\* ------------------------------------------------------------------------
\* a page of one of the two sites
PageSupported ==
  /\ pageUrl \in {{h} : h \in Hosts}
  /\ pageDom = {}
  /\ platform = detectChatbotPlatform(pageUrl, pageDom)

RecorderNotInstalled ==
  /\ recControls = FALSE
  /\ recObservers = 0
  /\ recInitPending = 0
  /\ recInitCalls = 0
  /\ isRecording = FALSE
  /\ recordedSession = <<>>
  /\ toggleText = "Start Recording"
  /\ indicatorActive = FALSE
  /\ consentPending = 0
  /\ savePending = 0
  /\ confirmations = 0
  /\ recSent = <<>>
  /\ clicks = 0
  /\ expected = <<>>

RecorderIdle == messages = <<>> /\ RecorderNotInstalled

RecorderUnused == hasChatContainer = FALSE /\ RecorderIdle

HighlighterIdle ==
  /\ prismLoaded = TRUE
  /\ hasTextGrammar = TRUE
  /\ parents = <<>>
  /\ codeBlocks = <<>>
  /\ highlightedCount = 0

ObserverIdle ==
  /\ settings = NoSettings
  /\ sharedObservers = 0
  /\ pendingBatch = <<>>
  /\ callbackRuns = 0

OrchestratorIdle ==
  /\ initCalls = [t \in Tabs |-> 0]
  /\ awaitConsent = [t \in Tabs |-> 0]
  /\ initDone = [t \in Tabs |-> 0]
  /\ initFailed = [t \in Tabs |-> 0]
  /\ themeListeners = [t \in Tabs |-> 0]

RuntimeIdle ==
  /\ bus = <<>>
  /\ inbox = [t \in Tabs |-> <<>>]
  /\ themeChanges = 0

FeedbackIdle == callbackTotal = 0 /\ moduleInserts = 0

StorageIdle ==
  /\ sessions = <<>>
  /\ retentionPolicy = NoPolicy
  /\ storageOps = <<>>
  /\ opsStarted = 0
  /\ completedDeletes = {}

ThemeIdle == themeState = [t \in Tabs |-> NewThemeState]

CommandBarIdle ==
  /\ inputValue = [k \in TextAreas |-> ""]
  /\ inputEvents = [k \in TextAreas |-> 0]
  /\ commands = DefaultCommands
  /\ cbBars = 0
  /\ buttons = <<>>
  /\ orphanButtons = 0
  /\ isCommandBarVisible = FALSE
  /\ barDisplay = "none"
  /\ keyListeners = 0
  /\ cbToggle = FALSE
  /\ cbInitCalls = 0
  /\ cbAdds = 0
  /\ cbExecs = 0

CommandBarUnused == pageControls = <<>> /\ CommandBarIdle

ExtensionUnused ==
  /\ OrchestratorIdle
  /\ RuntimeIdle
  /\ StorageIdle
  /\ FeedbackIdle
  /\ storedSettings = DefaultSettings
  /\ ThemeIdle
  /\ CommandBarUnused

\* --- session recorder alone ---
InitRecorder ==
  /\ PageSupported
  /\ hasChatContainer \in BOOLEAN
  /\ lastEvent = Event("load", TRUE)
  /\ RecorderIdle
  /\ HighlighterIdle
  /\ ObserverIdle
  /\ ExtensionUnused

notRecorder == <<platform, hlVars, obsVars, orcVars, netVars, thVars, cbVars,
    stoVars, fbVars>>

NextRecorder ==
  \/ InitSessionRecorderCall(platform) /\ UNCHANGED notRecorder
  \/ \E c \in BOOLEAN :
       InitSessionRecorderResume(platform, c) /\ UNCHANGED notRecorder
  \/ ClickStart /\ UNCHANGED notRecorder
  \/ \E c \in BOOLEAN : ConsentAnswered(platform, c) /\ UNCHANGED notRecorder
  \/ ClickStop /\ UNCHANGED notRecorder
  \/ \E r \in SaveReplies : SaveAnswered(r) /\ UNCHANGED notRecorder
  \/ ConfirmationTimeout /\ UNCHANGED notRecorder
  \/ \E role \in Roles, content \in ContentKinds, top \in BOOLEAN :
       InsertMessage(platform, role, content, top) /\ UNCHANGED notRecorder

SpecRecorder == InitRecorder /\ [][NextRecorder]_vars

\* --- session recorder on a page that inserts well-formed message nodes,
\* each as the added node itself, and removes message nodes ---
NextRecorderPage ==
  \/ InitSessionRecorderCall(platform) /\ UNCHANGED notRecorder
  \/ \E c \in BOOLEAN :
       InitSessionRecorderResume(platform, c) /\ UNCHANGED notRecorder
  \/ ClickStart /\ UNCHANGED notRecorder
  \/ \E c \in BOOLEAN : ConsentAnswered(platform, c) /\ UNCHANGED notRecorder
  \/ ClickStop /\ UNCHANGED notRecorder
  \/ \E r \in SaveReplies : SaveAnswered(r) /\ UNCHANGED notRecorder
  \/ ConfirmationTimeout /\ UNCHANGED notRecorder
  \/ \E role \in Roles :
       InsertMessage(platform, role, "text", TRUE) /\ UNCHANGED notRecorder
  \/ \E i \in 1..MaxMsgs : RemoveMessage(i) /\ UNCHANGED notRecorder

SpecRecorderPage == InitRecorder /\ [][NextRecorderPage]_vars

\* --- the same page, which also inserts removed message nodes again ---
NextRecorderReinsert ==
  \/ NextRecorderPage
  \/ \E i \in 1..MaxMsgs :
       ReinsertMessage(platform, i) /\ UNCHANGED notRecorder

SpecRecorderReinsert == InitRecorder /\ [][NextRecorderReinsert]_vars

\* --- syntax highlighter alone ---
InitHighlighter ==
  /\ PageSupported
  /\ lastEvent = Event("load", TRUE)
  /\ prismLoaded \in BOOLEAN
  /\ hasTextGrammar \in BOOLEAN
  /\ parents = <<>>
  /\ codeBlocks = <<>>
  /\ highlightedCount = 0
  /\ RecorderUnused
  /\ ObserverIdle
  /\ ExtensionUnused

notHighlighter == <<platform, recVars, obsVars, orcVars, netVars, thVars, cbVars,
    stoVars, fbVars>>

NextHighlighter ==
  \/ \E re \in BOOLEAN :
       InitSyntaxHighlighter(platform, re) /\ UNCHANGED notHighlighter
  \/ \E isPre \in BOOLEAN, parLang \in LanguageClasses, lang \in LanguageClasses,
        text \in {"empty", "code"} :
       InsertCodeBlock(isPre, parLang, lang, text) /\ UNCHANGED notHighlighter
  \/ \E par \in 1..MaxBlocks, lang \in LanguageClasses, text \in {"empty", "code"} :
       InsertSiblingCodeBlock(par, lang, text) /\ UNCHANGED notHighlighter
  \/ LoadPrism /\ UNCHANGED notHighlighter

SpecHighlighter == InitHighlighter /\ [][NextHighlighter]_vars

\* --- shared change observer with the highlighter as its callback ---
InitObserver ==
  /\ PageSupported
  /\ lastEvent = Event("load", TRUE)
  /\ settings \in {SettingsRecord(syntax, FALSE, "disabled", "light") :
                     syntax \in BOOLEAN}
  /\ sharedObservers = 0
  /\ pendingBatch = <<>>
  /\ callbackRuns = 0
  /\ RecorderUnused
  /\ HighlighterIdle
  /\ ExtensionUnused

notObserver == <<platform, recVars, orcVars, netVars, thVars, cbVars,
    stoVars, fbVars>>

NextObserver ==
  \/ ObserveDOMChanges(platform) /\ UNCHANGED <<notObserver, hlVars>>
  \/ QueueMutation /\ UNCHANGED <<notObserver, hlVars>>
  \/ \E node \in AddedNodeKinds :
       QueueAddedNode(node) /\ UNCHANGED <<notObserver, hlVars>>
  \/ DeliverBatch(platform) /\ UNCHANGED notObserver

SpecObserver == InitObserver /\ [][NextObserver]_vars

\* --- theme manager in two tabs of one site; the script is injected at
\* document_idle, and each tab is taken to start it after DOMContentLoaded
\* fired, so that it makes the immediate initializeExtension call only ---
InitTheme ==
  /\ PageSupported
  /\ lastEvent = Event("load", TRUE)
  /\ RecorderUnused
  /\ HighlighterIdle
  /\ ObserverIdle
  /\ OrchestratorIdle
  /\ RuntimeIdle
  /\ StorageIdle
  /\ FeedbackIdle
  /\ storedSettings \in {SettingsRecord(FALSE, FALSE, rec, theme) :
                           rec \in {"enabled", "disabled"},
                           theme \in {"light", "custom"}}
  /\ ThemeIdle
  /\ CommandBarUnused

notTheme == <<platform, recVars, hlVars, obsVars, orcVars, cbVars,
    stoVars, fbVars>>

NextTheme ==
  \/ \E t \in Tabs :
       initCalls[t] = 0 /\ InitializeExtension(t) /\ UNCHANGED platform
  \/ BackgroundStep
       /\ UNCHANGED <<platform, recVars, hlVars, obsVars, orcVars, thVars, cbVars,
                    stoVars, fbVars>>
  \/ \E t \in Tabs : ReceiveSettings(t) /\ UNCHANGED platform
  \/ \E t \in Tabs, c \in BOOLEAN : ConsentChecked(t, c) /\ UNCHANGED platform
  \/ \E t \in Tabs : ReceiveThemeChanged(t) /\ UNCHANGED notTheme
  \/ \E t \in Tabs, theme \in AvailableThemes :
       UserSelectTheme(t, theme) /\ UNCHANGED notTheme

SpecTheme == InitTheme /\ [][NextTheme]_vars

\* --- command bar; as for the theme manager, the script is taken to start
\* after DOMContentLoaded fired, so that initCommandBar is called once ---
\* the input controls of the page, in document order
PageLayouts ==
  { <<"textarea", "sendButton">>,
    <<"chatInputTextarea", "chatInputSubmit">>,
    <<"textarea", "chatInputTextarea", "chatInputSubmit">>,
    <<"textarea">>,
    <<>> }

StoredCommands == << [name |-> "Plan", text |-> "Make a plan for: "] >>

InitCommandBarPage ==
  /\ PageSupported
  /\ lastEvent = Event("load", TRUE)
  /\ RecorderUnused
  /\ HighlighterIdle
  /\ ObserverIdle
  /\ OrchestratorIdle
  /\ RuntimeIdle
  /\ StorageIdle
  /\ FeedbackIdle
  /\ storedSettings \in
       {DefaultSettings,
        [DefaultSettings EXCEPT !.hasCommands = TRUE, !.commands = StoredCommands]}
  /\ ThemeIdle
  /\ pageControls \in PageLayouts
  /\ CommandBarIdle

notCommandBar == <<platform, recVars, hlVars, obsVars, orcVars, thVars,
    stoVars, fbVars>>

NextCommandBar ==
  \/ cbInitCalls = 0 /\ InitCommandBarCall(platform) /\ UNCHANGED notCommandBar
  \/ BackgroundStep /\ UNCHANGED <<notCommandBar, cbVars>>
  \/ InitCommandBarResume(platform) /\ UNCHANGED notCommandBar
  \/ KeyToggle /\ UNCHANGED <<notCommandBar, netVars>>
  \/ \E close \in BOOLEAN : ClickToggle(close) /\ UNCHANGED <<notCommandBar, netVars>>
  \/ \E i \in 1..(Len(DefaultCommands) + MaxCustom) :
       ClickCommand(i) /\ UNCHANGED <<notCommandBar, netVars>>
  \/ AddCustomCommand("Foo", "Do foo: ") /\ UNCHANGED notCommandBar
  \/ AddCustomCommandResume /\ UNCHANGED notCommandBar

SpecCommandBar == InitCommandBarPage /\ [][NextCommandBar]_vars

\* --- the content script on one page, any site ---
\* pages by <<host names in the address, fingerprint classes in the document>>
Pages ==
  { <<{}, {}>>, <<{"chat.openai.com"}, {}>>, <<{}, {"chat-message"}>>,
    <<{"mistral.ai"}, {"markdown"}>> }

InitExtension ==
  /\ \E pg \in Pages : pageUrl = pg[1] /\ pageDom = pg[2]
  /\ platform = detectChatbotPlatform(pageUrl, pageDom)
  /\ lastEvent = Event("load", TRUE)
  /\ hasChatContainer = TRUE
  /\ messages = <<[id |-> 1, role |-> "user", content |-> "text",
                   attached |-> TRUE]>>
  /\ RecorderNotInstalled
  /\ prismLoaded = TRUE
  /\ hasTextGrammar = TRUE
  /\ parents = <<[isPre |-> TRUE, lang |-> "", badges |-> 0, copy |-> FALSE]>>
  /\ codeBlocks = <<NewBlock(Len(parents), "js", "code")>>
  /\ highlightedCount = 0
  /\ ObserverIdle
  /\ OrchestratorIdle
  /\ RuntimeIdle
  /\ StorageIdle
  /\ FeedbackIdle
  /\ storedSettings \in {SettingsRecord(syntax, bar, rec, "dark") :
                           syntax \in BOOLEAN, bar \in BOOLEAN,
                           rec \in {"enabled", "disabled", "undefined"}}
  /\ ThemeIdle
  /\ pageControls = <<"textarea", "sendButton">>
  /\ CommandBarIdle

NextExtension ==
  \/ InitializeExtension(ObservedTab) /\ UNCHANGED platform
  \/ BackgroundStep
       /\ UNCHANGED <<platform, recVars, hlVars, obsVars, orcVars, thVars, cbVars,
                    stoVars, fbVars>>
  \/ BackgroundUnavailable
       /\ UNCHANGED <<platform, recVars, hlVars, obsVars, orcVars, thVars, cbVars,
                    stoVars, fbVars>>
  \/ ReceiveSettings(ObservedTab) /\ UNCHANGED platform
  \/ \E c \in BOOLEAN : ConsentChecked(ObservedTab, c) /\ UNCHANGED platform
  \/ InitCommandBarResume(platform)
       /\ UNCHANGED <<platform, recVars, hlVars, obsVars, orcVars, thVars,
                    stoVars, fbVars>>
  \/ \E c \in BOOLEAN :
       InitSessionRecorderResume(platform, c) /\ UNCHANGED notRecorder
  \/ ClickStart /\ UNCHANGED notRecorder
  \/ \E c \in BOOLEAN : ConsentAnswered(platform, c) /\ UNCHANGED notRecorder
  \/ ClickStop /\ UNCHANGED notRecorder
  \/ \E r \in SaveReplies : SaveAnswered(r) /\ UNCHANGED notRecorder
  \/ ConfirmationTimeout /\ UNCHANGED notRecorder
  \/ \E p \in UnsupportedIds, re \in BOOLEAN :
       InitSyntaxHighlighter(p, re) /\ UNCHANGED notHighlighter
  \/ \E p \in UnsupportedIds, theme \in AvailableThemes :
       InitThemeManagerCall(p, theme)
         /\ UNCHANGED <<platform, recVars, hlVars, obsVars, orcVars, netVars, cbVars,
                      stoVars, fbVars>>
  \/ \E p \in UnsupportedIds :
       InitCommandBarCall(p) /\ UNCHANGED notCommandBar
  \/ \E p \in UnsupportedIds :
       InitSessionRecorderCall(p) /\ UNCHANGED notRecorder

SpecExtension == InitExtension /\ [][NextExtension]_vars

\* --- platform detection on any page ---
InitDetector ==
  /\ pageUrl \in SUBSET Hosts
  /\ pageDom \in SUBSET Fingerprints
  /\ platform = "null"
  /\ lastEvent = Event("load", TRUE)
  /\ RecorderUnused
  /\ HighlighterIdle
  /\ ObserverIdle
  /\ ExtensionUnused

notDetector == <<recVars, hlVars, obsVars, netVars, thVars, cbVars,
    stoVars, fbVars>>

NextDetector ==
  \/ DetectPlatform /\ UNCHANGED notDetector
  \/ \E dom \in SUBSET Fingerprints : PageRenders(dom) /\ UNCHANGED notDetector
  \/ \E url \in SUBSET Hosts : PageNavigates(url) /\ UNCHANGED notDetector

SpecDetector == InitDetector /\ [][NextDetector]_vars

\* the sessions store with deleteSession calls and cleanup alarms in any
\* interleaving of their reads and writes
InitStorage ==
  /\ PageSupported
  /\ lastEvent = Event("load", TRUE)
  /\ RecorderUnused
  /\ HighlighterIdle
  /\ ObserverIdle
  /\ OrchestratorIdle
  /\ RuntimeIdle
  /\ storedSettings = DefaultSettings
  /\ ThemeIdle
  /\ CommandBarUnused
  /\ sessions \in {StoredSessions(a) : a \in SessionLists}
  /\ retentionPolicy \in Policies
  /\ storageOps = <<>>
  /\ opsStarted = 0
  /\ completedDeletes = {}
  /\ FeedbackIdle

notStorage == <<platform, recVars, hlVars, obsVars, orcVars, netVars, thVars,
               cbVars, fbVars>>

NextStorage ==
  \/ \E i \in 1..Len(SessionIds) :
       DeleteSessionRead(SessionIds[i]) /\ UNCHANGED notStorage
  \/ \E k \in 1..MaxStorageOps : DeleteSessionWrite(k) /\ UNCHANGED notStorage
  \/ CleanupAlarm /\ UNCHANGED notStorage
  \/ \E k \in 1..MaxStorageOps : CleanupRead(k) /\ UNCHANGED notStorage
  \/ \E k \in 1..MaxStorageOps : CleanupWrite(k) /\ UNCHANGED notStorage

SpecStorage == InitStorage /\ [][NextStorage]_vars

\* the shared observers with the page inserting messages and the extension
\* changing the document itself
InitSelfChange ==
  /\ PageSupported
  /\ lastEvent = Event("load", TRUE)
  /\ settings \in {SettingsRecord(syntax, FALSE, "disabled", "light") :
                     syntax \in BOOLEAN}
  /\ sharedObservers = 0
  /\ pendingBatch = <<>>
  /\ callbackRuns = 0
  /\ RecorderUnused
  /\ HighlighterIdle
  /\ ExtensionUnused

notSelfChange == <<platform, recVars, orcVars, netVars, thVars, cbVars,
                  stoVars>>

NextSelfChange ==
  \/ ObserveDOMChanges(platform) /\ UNCHANGED <<notSelfChange, hlVars, fbVars>>
  \/ \E isPre \in BOOLEAN, lang \in LanguageClasses, text \in {"empty", "code"} :
       PageInsertsMessage(platform, isPre, lang, text) /\ UNCHANGED notSelfChange
  \/ \E node \in ModuleNodes : ModuleInserts(node) /\ UNCHANGED notSelfChange
  \/ DeliverAndCount(platform) /\ UNCHANGED notSelfChange

SpecSelfChange == InitSelfChange /\ [][NextSelfChange]_vars

\* --- one tab whose user changes the theme and adds a custom command, both
\* saved through the background ---
NextSettings ==
  \/ initCalls[ObservedTab] = 0 /\ InitializeExtension(ObservedTab)
       /\ UNCHANGED platform
  \/ BackgroundStep
       /\ UNCHANGED <<platform, recVars, hlVars, obsVars, orcVars, thVars, cbVars,
                    stoVars, fbVars>>
  \/ ReceiveSettings(ObservedTab) /\ UNCHANGED platform
  \/ InitCommandBarResume(platform) /\ UNCHANGED notCommandBar
  \/ KeyToggle /\ UNCHANGED <<notCommandBar, netVars>>
  \/ AddCustomCommand("Foo", "Do foo: ") /\ UNCHANGED notCommandBar
  \/ AddCustomCommandResume /\ UNCHANGED notCommandBar
  \/ \E theme \in AvailableThemes :
       UserSelectTheme(ObservedTab, theme) /\ UNCHANGED notTheme
  \/ \E t \in Tabs : ReceiveThemeChanged(t) /\ UNCHANGED notTheme

SpecSettings == InitCommandBarPage /\ [][NextSettings]_vars

\* --- one tab whose persisted theme and THEME_CHANGED messages carry any
\* value ---
InitThemeValues ==
  /\ PageSupported
  /\ lastEvent = Event("load", TRUE)
  /\ RecorderUnused
  /\ HighlighterIdle
  /\ ObserverIdle
  /\ OrchestratorIdle
  /\ RuntimeIdle
  /\ StorageIdle
  /\ FeedbackIdle
  /\ storedSettings \in {SettingsRecord(FALSE, FALSE, "disabled", theme) :
                           theme \in {"light", "undefined"} \cup ForeignThemes}
  /\ ThemeIdle
  /\ CommandBarUnused

NextThemeValues ==
  \/ initCalls[ObservedTab] = 0 /\ InitializeExtension(ObservedTab)
       /\ UNCHANGED platform
  \/ BackgroundStep
       /\ UNCHANGED <<platform, recVars, hlVars, obsVars, orcVars, thVars, cbVars,
                    stoVars, fbVars>>
  \/ ReceiveSettings(ObservedTab) /\ UNCHANGED platform
  \/ \E t \in Tabs : ReceiveThemeChanged(t) /\ UNCHANGED notTheme
  \/ \E theme \in AvailableThemes :
       UserSelectTheme(ObservedTab, theme) /\ UNCHANGED notTheme
  \/ \E theme \in {"dark"} \cup ForeignThemes :
       ThemeChangedArrives(ObservedTab, theme) /\ UNCHANGED notTheme

SpecThemeValues == InitThemeValues /\ [][NextThemeValues]_vars

\* ------------------------------------------------------------------------
\* Properties of the session recorder
\* ------------------------------------------------------------------------

\* C1 (consent gating): every step that takes the recorder from idle to
\* recording is the continuation of a forced consent check that answered
\* true, and a forced check that answers false leaves the recording flag and
\* the buffer as they were.
ConsentGating ==
  [][ /\ ((~isRecording /\ isRecording') =>
            lastEvent' = Event("forcedConsent", TRUE))
      /\ (lastEvent' = Event("forcedConsent", FALSE) =>
            UNCHANGED <<isRecording, recordedSession>>) ]_vars

ConsentGatingWitness ==
  /\ isRecording
  /\ lastEvent = Event("forcedConsent", TRUE)
  /\ recordedSession # <<>>

\* C2 (recording order and completeness): the session sent on stop holds
\* exactly one entry per message of the interval, the ones present at start
\* in document order and then the inserted ones in insertion order, each with
\* its node's role.
RecordingOrderAndCompleteness ==
  [][ (lastEvent'.op = "clickStop" /\ isRecording /\ expected # <<>>) =>
        /\ Len(recSent') = Len(recSent) + 1
        /\ LET s == recSent'[Len(recSent')]
           IN /\ s.type = "SAVE_SESSION"
              /\ [i \in 1..Len(s.content) |-> s.content[i].node] = expected
              /\ \A i \in 1..Len(s.content) :
                   s.content[i].role =
                     MessageRole(platform, messages[s.content[i].node]) ]_vars

\* C3 (stop flushes and clears): stopping with a non-empty buffer sends the
\* whole buffer as one SAVE_SESSION request, and when the stop action has
\* completed the buffer is empty.
StopFlushesAndClears ==
  [][ /\ ((isRecording /\ ~isRecording' /\ recordedSession # <<>>) =>
            recSent' = Append(recSent, SaveSessionMsg(recordedSession)))
      /\ ((lastEvent'.op = "saveAnswered" /\ ~isRecording') =>
            recordedSession' = <<>>) ]_vars

\* C4 (empty-session guard): stopping with an empty buffer sends nothing, and
\* no SAVE_SESSION request ever carries an empty content sequence.
EmptySessionGuard ==
  /\ [](\A i \in 1..Len(recSent) :
          recSent[i].type = "SAVE_SESSION" => recSent[i].content # <<>>)
  /\ [][ (isRecording /\ ~isRecording' /\ recordedSession = <<>>) =>
           recSent' = recSent ]_vars

EmptySessionGuardWitness ==
  /\ lastEvent.op = "clickStop"
  /\ ~isRecording
  /\ recordedSession = <<>>
  /\ messages # <<>>

\* ------------------------------------------------------------------------
\* Properties of the syntax highlighter
\* ------------------------------------------------------------------------

\* C5 (highlighter idempotency): a pass that directly follows another pass
\* highlights no block and leaves every code block and its parent's badge
\* and copy button as they were, and no code block is ever transformed more
\* than once.
HighlighterIdempotent ==
  /\ [](\A i \in 1..Len(codeBlocks) : codeBlocks[i].transforms <= 1)
  /\ [][ (lastEvent.op = "highlightPass" /\ lastEvent'.op = "highlightPass") =>
           /\ codeBlocks' = codeBlocks
           /\ parents' = parents
           /\ highlightedCount' = 0 ]_vars

HighlighterIdempotentWitness ==
  /\ lastEvent.op = "highlightPass"
  /\ highlightedCount = 0
  /\ \E i \in 1..Len(codeBlocks) :
       /\ codeBlocks[i].marked /\ codeBlocks[i].transforms = 1
       /\ parents[codeBlocks[i].parent].badges = 1
       /\ parents[codeBlocks[i].parent].copy

\* ------------------------------------------------------------------------
\* Properties of the shared change observer
\* ------------------------------------------------------------------------

\* C6 (batch coalescing): a delivered batch makes each installed observer
\* invoke the callback exactly once when at least one of its added element
\* nodes satisfies the platform predicate, however many do, and not at all
\* otherwise.
BatchCoalescing ==
  [][ lastEvent'.op = "deliverBatch" =>
        callbackRuns' =
          sharedObservers *
            (IF QualifyingNodes(platform, pendingBatch) >= 1 THEN 1 ELSE 0) ]_vars

BatchCoalescingWitness ==
  /\ lastEvent.op = "deliverBatch"
  /\ sharedObservers = 1
  /\ callbackRuns = 1

\* ------------------------------------------------------------------------
\* Properties of the host orchestrator and the feature gates
\* ------------------------------------------------------------------------
\* everything a feature or the orchestrator can install or keep: all of the
\* state but the record of the last operation and the count of
\* initializeExtension calls
Installed ==
  <<recVars, hlVars, obsVars, awaitConsent, initDone, initFailed,
    themeListeners, netVars, thVars, cbVars>>

FeatureInitOps ==
  {"highlightPass", "initThemeManager", "initCommandBar", "initSessionRecorder"}

ThemeExclusivity ==
  \A t \in Tabs :
    themeState[t].applied # <<>> =>
      /\ themeState[t].bodyClasses \cap ThemeMarkerClasses =
           {ThemeClass(themeState[t].applied[1])}
      /\ themeState[t].headLinks = themeState[t].applied

ThemeExclusivityWitness ==
  /\ lastEvent = EventArg("selectTheme", TRUE, "high-contrast")
  /\ themeChanges = MaxChanges
  /\ \E t \in Tabs : /\ themeState[t].applied = <<"high-contrast">>
                     /\ "prism-high-contrast" \in themeState[t].bodyClasses

\* no request on its way to the background, no reply or notification on its
\* way to a tab, no initializeExtension call waiting
Quiescent ==
  /\ bus = <<>>
  /\ \A t \in Tabs : inbox[t] = <<>> /\ awaitConsent[t] = 0

\* C9 (cross-tab theme convergence): once users have changed the theme
\* through the selector and every message has been delivered, all tabs in
\* which the content script ran have the same current theme.
ThemeConvergence ==
  (Quiescent /\ themeChanges > 0) =>
    \A t, u \in {x \in Tabs : initCalls[x] > 0} :
      themeState[t].currentTheme = themeState[u].currentTheme

\* ------------------------------------------------------------------------
\* Properties of the command bar
\* ------------------------------------------------------------------------
PlatformInput ==
  QuerySelector(pageControls, CommandBarSelectors(platform).inputArea)
PlatformSubmit ==
  QuerySelector(pageControls, CommandBarSelectors(platform).submitButton)

\* C10 (command execution): on a page that holds the platform's input and
\* submit controls, a click on any command button of the displayed bar
\* writes the command's text into the platform's input control, dispatches
\* one input event on it and leaves the bar hidden.
CommandExecution ==
  [][ (lastEvent'.op = "clickCommand" /\ PlatformInput # 0 /\ PlatformSubmit # 0)
        => /\ inputValue'[pageControls[PlatformInput]] = lastEvent'.arg
           /\ inputEvents'[pageControls[PlatformInput]] =
                inputEvents[pageControls[PlatformInput]] + 1
           /\ ~isCommandBarVisible' ]_vars

\* command buttons in the document
DocumentButtons == Len(buttons) + orphanButtons

\* the list started from the five built-ins
BuiltInsFirst ==
  /\ Len(commands) >= Len(DefaultCommands)
  /\ SubSeq(commands, 1, Len(DefaultCommands)) = DefaultCommands

\* no request or reply of the command bar on its way
CommandBarSettled == bus = <<>> /\ inbox[ObservedTab] = <<>>

ButtonsMatchList == cbBars > 0 => DocumentButtons = Len(commands)

AddsCounted ==
  (CommandBarSettled /\ BuiltInsFirst /\ cbAdds > 0) =>
    /\ DocumentButtons = Len(DefaultCommands) + cbAdds
    /\ storedSettings.hasCommands
    /\ Len(storedSettings.commands) = Len(DefaultCommands) + cbAdds

\* C11 (adding a custom command): an add appends one entry to the command
\* list and puts one more command button into the document; the request it
\* sends to be saved carries the whole list; the command buttons in the
\* document are always as many as the list has entries, and from the five
\* built-ins k adds leave 5+k buttons and a stored list of length 5+k.
CustomCommandAdded ==
  [][ /\ lastEvent'.op = "addCustomCommand" =>
           /\ Len(commands') = Len(commands) + 1
           /\ SubSeq(commands', 1, Len(commands)) = commands
           /\ commands'[Len(commands')].name = lastEvent'.arg
           /\ DocumentButtons' = DocumentButtons + 1
      /\ lastEvent'.op = "addCustomCommandResume" =>
           /\ Len(bus') = Len(bus) + 1
           /\ bus'[Len(bus')].type = "SAVE_SETTINGS"
           /\ bus'[Len(bus')].settings.hasCommands
           /\ bus'[Len(bus')].settings.commands = commands'
      /\ ButtonsMatchList'
      /\ AddsCounted' ]_vars

\* C12 (soft failure of the settings channel): when GET_SETTINGS is answered
\* without a response, getSettings yields the empty record and
\* initializeExtension, resumed with it, is not aborted by an error: the
\* theme manager is initialised with the default theme, the shared change
\* observer is installed and the THEME_CHANGED listener is registered.
SoftSettingsFailure ==
  [][ ( /\ lastEvent'.op = "receiveSettings"
        /\ inbox[ObservedTab] # <<>>
        /\ ~Head(inbox[ObservedTab]).answered ) =>
        /\ settings' = NoSettings
        /\ themeState'[ObservedTab].currentTheme = "light"
        /\ initFailed' = initFailed
        /\ sharedObservers' = sharedObservers + 1
        /\ themeListeners'[ObservedTab] = themeListeners[ObservedTab] + 1 ]_vars

\* block i of the document has content and a language Prism has no grammar
\* for, the text grammar missing as well
NoGrammarFor(i) ==
  /\ codeBlocks[i].text # "empty"
  /\ ~hasTextGrammar
  /\ LanguageOf(codeBlocks[i], parents[codeBlocks[i].parent]) \notin PrismGrammars

\* C13 (partial-failure isolation in the highlighter): in a pass with the
\* library present, an unprocessed non-empty block whose highlighting throws
\* is left as it was, unmarked, and every other unprocessed non-empty block
\* is highlighted and marked processed in that same pass.
HighlightIsolation ==
  [][ (lastEvent'.op = "highlightPass" /\ prismLoaded) =>
        \A i \in 1..Len(codeBlocks) :
          (~codeBlocks[i].marked /\ codeBlocks[i].text # "empty") =>
            IF NoGrammarFor(i)
            THEN codeBlocks'[i] = codeBlocks[i]
            ELSE /\ codeBlocks'[i].marked
                 /\ codeBlocks'[i].highlighted
                 /\ codeBlocks'[i].transforms = 1 ]_vars

\* a pass met a block it could not highlight and highlighted a later one
HighlightIsolationWitness ==
  /\ lastEvent.op = "highlightPass"
  /\ prismLoaded
  /\ \E i, j \in 1..Len(codeBlocks) :
       /\ i < j
       /\ NoGrammarFor(i) /\ ~codeBlocks[i].marked
       /\ codeBlocks[j].marked /\ codeBlocks[j].transforms = 1
  /\ highlightedCount = 1

\* C16 (highlighting library unavailable): a pass made while the library is
\* absent leaves every code block and every parent as it was (content,
\* processed marker, badge, copy button) and counts nothing; a pass made
\* once the library is present processes the blocks that were left: every
\* unmarked non-empty block it has a grammar for is highlighted and marked.
LibraryUnavailable ==
  [][ lastEvent'.op = "highlightPass" =>
        IF ~prismLoaded
        THEN /\ codeBlocks' = codeBlocks
             /\ parents' = parents
             /\ highlightedCount' = 0
        ELSE \A i \in 1..Len(codeBlocks) :
               ( /\ ~codeBlocks[i].marked
                 /\ codeBlocks[i].text # "empty"
                 /\ ~NoGrammarFor(i) ) =>
                 /\ codeBlocks'[i].marked
                 /\ codeBlocks'[i].transforms = codeBlocks[i].transforms + 1
                 /\ parents[codeBlocks[i].parent].isPre =>
                      parents'[codeBlocks[i].parent].copy ]_vars

\* a pass has run over a block that can be highlighted, without the library
LibraryUnavailableWitness ==
  /\ lastEvent.op = "highlightPass"
  /\ ~prismLoaded
  /\ \E i \in 1..Len(codeBlocks) :
       /\ codeBlocks[i].text # "empty"
       /\ ~NoGrammarFor(i)
       /\ ~codeBlocks[i].marked /\ codeBlocks[i].transforms = 0
       /\ parents[codeBlocks[i].parent].isPre
       /\ ~parents[codeBlocks[i].parent].copy

\* nodes the buffer's entries were made from
BufferedNodes == {recordedSession[k].node : k \in 1..Len(recordedSession)}

\* C14 (idle observer is a no-op): a mutation batch delivered while the
\* recorder is idle (a message node inserted or removed) leaves the buffer,
\* the recording flag and the controls as they were; the buffer of a started
\* session holds only nodes that were in the document at that start or were
\* inserted while it was recording, so a message inserted while idle gets
\* into a later session only by still being in the document at its start.
IdleObserverNoOp ==
  /\ [](BufferedNodes \subseteq {expected[k] : k \in 1..Len(expected)})
  /\ [][ (lastEvent'.op \in {"insertMessage", "removeMessage"} /\ ~isRecording) =>
           /\ recordedSession' = recordedSession
           /\ isRecording' = isRecording
           /\ recControls' = recControls
           /\ toggleText' = toggleText
           /\ indicatorActive' = indicatorActive ]_vars

\* a first session is being recorded and has an entry; a message that was
\* inserted and removed before its start is not in it
IdleObserverNoOpWitness ==
  /\ isRecording /\ clicks = 1 /\ recObservers > 0
  /\ recordedSession # <<>>
  /\ \E i \in 1..Len(messages) :
       /\ ~messages[i].attached
       /\ RoleAndContent(MessageRole(platform, messages[i]), messages[i].content)
       /\ messages[i].id \notin BufferedNodes
       /\ \A k \in 1..Len(expected) : expected[k] # messages[i].id

\* a SAVE_SESSION request was sent
SessionSent == \E k \in 1..Len(recSent) : recSent[k].type = "SAVE_SESSION"

\* C15 (recorder installation is gated at page load): the recording
\* controls and the recorder's message observer are installed only by an
\* initSessionRecorder whose passive consent check answered true, that call
\* is made only after initializeExtension's passive consent check answered
\* true, and that check is made only for settings with
\* sessionRecording.enabled; without the controls isRecording is false, no
\* consent prompt of a start is pending and no SAVE_SESSION was sent.
RecorderInstallGated ==
  /\ []( ~recControls =>
           /\ recObservers = 0
           /\ ~isRecording /\ consentPending = 0 /\ clicks = 0
           /\ ~SessionSent )
  /\ [][ /\ (recControls' # recControls \/ recObservers' # recObservers) =>
              /\ lastEvent'.op = "initSessionRecorderResume" /\ lastEvent'.flag
              /\ recInitPending > 0
         /\ recInitPending' > recInitPending =>
              /\ lastEvent'.op = "consentChecked" /\ lastEvent'.flag
              /\ awaitConsent[ObservedTab] > 0
         /\ awaitConsent'[ObservedTab] > awaitConsent[ObservedTab] =>
              /\ lastEvent'.op = "receiveSettings"
              /\ lastEvent'.arg = "enabled"
              /\ settings'.sessionRecording = "enabled" ]_vars

\* both outcomes: a page where the second passive check refused, and, after
\* a second initializeExtension, controls through which a session was sent
RecorderInstallGatedWitness ==
  /\ recControls /\ recObservers > 0
  /\ SessionSent
  /\ initDone[ObservedTab] = MaxInits
  /\ recInitCalls = MaxInits

\* the predicate of the platform on an added node, as the source states it
SatisfiesPlatformPredicate(p, node) ==
  /\ node.element
  /\ IF p = "chatgpt" THEN "markdown" \in node.classes \/ node.roleAttr
     ELSE IF p = "mistral" THEN "chat-message" \in node.classes
     ELSE FALSE

\* C17 (the change observer reacts to insertions only): a delivered batch
\* none of whose added nodes is an element that itself satisfies the
\* platform predicate (only removals, only non-element nodes, only other
\* elements) never invokes the callback, and no code block is touched.
InsertionsOnly ==
  [][ ( /\ lastEvent'.op = "deliverBatch"
        /\ \A i \in 1..Len(pendingBatch) :
             \A j \in 1..Len(pendingBatch[i].addedNodes) :
               ~SatisfiesPlatformPredicate(platform,
                                           pendingBatch[i].addedNodes[j]) ) =>
        /\ callbackRuns' = 0
        /\ ~lastEvent'.flag
        /\ codeBlocks' = codeBlocks /\ parents' = parents ]_vars

\* an observer was handed a batch with added elements and did not call back
InsertionsOnlyWitness ==
  /\ lastEvent.op = "deliverBatch"
  /\ lastEvent.arg = "elements"
  /\ ~lastEvent.flag
  /\ sharedObservers > 0
  /\ callbackRuns = 0

\* C18 (platform detection precedence): detectChatbotPlatform returns
\* chatgpt whenever the address contains the ChatGPT host, else mistral
\* whenever it contains the Mistral host, whatever the document holds; with
\* neither host it returns chatgpt for a document with a .markdown element,
\* else mistral for one with a .chat-message element, else null.
DetectionPrecedence ==
  [][ lastEvent'.op = "detectChatbotPlatform" =>
        /\ "chat.openai.com" \in pageUrl => platform' = "chatgpt"
        /\ ("chat.openai.com" \notin pageUrl /\ "mistral.ai" \in pageUrl) =>
             platform' = "mistral"
        /\ pageUrl \cap Hosts = {} =>
             /\ "markdown" \in pageDom => platform' = "chatgpt"
             /\ ("markdown" \notin pageDom /\ "chat-message" \in pageDom) =>
                  platform' = "mistral"
             /\ pageDom \cap Fingerprints = {} => platform' = "null"
        /\ lastEvent'.arg = platform' ]_vars

\* the address names both hosts, the document holds the Mistral fingerprint
\* only, and the call answered chatgpt
DetectionPrecedenceWitness ==
  /\ lastEvent.op = "detectChatbotPlatform"
  /\ pageUrl = Hosts
  /\ pageDom = {"chat-message"}
  /\ platform = "chatgpt"

\* a command was added from the built-ins and its save was stored
CustomCommandAddedWitness ==
  /\ cbAdds = 1
  /\ CommandBarSettled
  /\ commands = Append(DefaultCommands, [name |-> "Foo", text |-> "Do foo: "])
  /\ DocumentButtons = Len(DefaultCommands) + 1
  /\ storedSettings.hasCommands
  /\ storedSettings.commands = commands

\* C19 (command list on init): when initCommandBar completes, the command
\* list is the persisted list if the settings hold one, with none of the
\* built-ins kept, and the five built-ins otherwise; the bar has one button
\* per list entry, in list order.
CommandListOnInit ==
  [][ lastEvent'.op = "initCommandBarResume" =>
        /\ commands' =
             IF getSettings(Head(inbox[ObservedTab])).hasCommands
             THEN getSettings(Head(inbox[ObservedTab])).commands
             ELSE DefaultCommands
        /\ Len(buttons') = Len(commands')
        /\ \A i \in 1..Len(commands') :
             /\ buttons'[i].name = commands'[i].name
             /\ buttons'[i].text = commands'[i].text ]_vars

\* initCommandBar completed with a persisted list
CommandListOnInitWitness ==
  /\ lastEvent.op = "initCommandBarResume"
  /\ storedSettings.hasCommands
  /\ commands = StoredCommands
  /\ Len(buttons) = Len(StoredCommands)
  /\ buttons[1].name = StoredCommands[1].name

\* the colour-scheme class the highlighter is to show for a theme
PrismClassFor(theme) ==
  IF theme = "dark" THEN "prism-dark"
  ELSE IF theme = "high-contrast" THEN "prism-high-contrast"
  ELSE "prism-light"

\* C20 (highlighter colour scheme follows the theme): once applyTheme has
\* run in a tab, its body carries exactly one of prism-light, prism-dark and
\* prism-high-contrast: prism-dark for theme dark, prism-high-contrast for
\* high-contrast, prism-light for any other theme; and currentTheme changes
\* only in a step in which applyTheme ran with the new value.
PrismFollowsTheme ==
  /\ [](\A t \in Tabs :
          themeState[t].applied # <<>> =>
            themeState[t].bodyClasses \cap PrismClasses =
              {PrismClassFor(themeState[t].currentTheme)})
  /\ [][ \A t \in Tabs :
           themeState'[t].currentTheme # themeState[t].currentTheme =>
             /\ themeState'[t].applied = <<themeState'[t].currentTheme>>
             /\ lastEvent'.op \in {"receiveSettings", "selectTheme",
                                   "themeChanged"} ]_vars

\* the user changed the theme a second time, to high-contrast, in a tab that
\* showed another scheme before
PrismFollowsThemeWitness ==
  /\ lastEvent = EventArg("selectTheme", TRUE, "high-contrast")
  /\ themeChanges = MaxChanges
  /\ \E t \in Tabs :
       /\ themeState[t].currentTheme = "high-contrast"
       /\ "prism-high-contrast" \in themeState[t].bodyClasses
       /\ \E u \in Tabs : "prism-dark" \in themeState[u].bodyClasses


\* ------------------------------------------------------------------------
\* C21  Session deletion: once deleteSession(id) has completed, the persisted
\*      list holds no session with that id, and the write that completes it
\*      leaves every other persisted session in place, in the same order;
\*      also when the storage reads and writes of two deleteSession calls, or
\*      of a deleteSession and a cleanup, interleave.
\* ------------------------------------------------------------------------
SessionDeletion ==
  [][/\ completedDeletes' \cap IdsOf(sessions') = {}
     /\ lastEvent'.op = "deleteSessionDone"
          => sessions' = WithoutSession(sessions, lastEvent'.arg)]_vars

\* ------------------------------------------------------------------------
\* C22  Retention cleanup: the write of a cleanup whose alarm found autoDelete
\*      set stores exactly the sessions of the list it read whose timestamp
\*      is not older than retentionDays before now, in their original order,
\*      and with no other write since the read that is the persisted list so
\*      filtered; an alarm that finds autoDelete false or no settings starts
\*      nothing and leaves the list unchanged.
\* ------------------------------------------------------------------------
Young(list, days) ==
  LET keep(s) == s.age <= days IN SelectSeq(list, keep)

RetentionCleanup ==
  [][/\ lastEvent'.op = "cleanupDone"
          => /\ retentionPolicy.present /\ retentionPolicy.autoDelete
             /\ \E k \in 1..Len(storageOps) :
                  /\ storageOps[k].kind = "cleanup"
                  /\ storageOps[k].stage = "write"
                  /\ storageOps' = RemoveOp(storageOps, k)
                  /\ sessions' = Young(storageOps[k].list,
                                       retentionPolicy.retentionDays)
                  /\ storageOps[k].list = sessions
                       => sessions' = Young(sessions,
                                            retentionPolicy.retentionDays)
     /\ (lastEvent'.op = "cleanupAlarm"
           /\ ~(retentionPolicy.present /\ retentionPolicy.autoDelete))
          => sessions' = sessions /\ storageOps' = storageOps]_vars

\* a cleanup has dropped one session and kept another one, the kept one being
\* exactly retentionDays old
RetentionCleanupWitness ==
  /\ lastEvent.op = "cleanupDone"
  /\ completedDeletes = {}
  /\ opsStarted = 1
  /\ Len(sessions) = 2
  /\ sessions[1].id = "s1" /\ sessions[2].id = "s3"
  /\ sessions[2].age = retentionPolicy.retentionDays

\* ------------------------------------------------------------------------
\* C23  Recorder state and controls agree: whenever no toggleRecording call
\*      is under way (no consent check and no save pending), the toggle
\*      button reads 'Stop Recording' and the indicator shows recording
\*      exactly when isRecording is true.
\* ------------------------------------------------------------------------
ControlsAgree ==
  (consentPending = 0 /\ savePending = 0)
    => /\ (toggleText = "Stop Recording") <=> isRecording
       /\ indicatorActive <=> isRecording

\* ------------------------------------------------------------------------
\* C24  Initialisation happens at most once per page load: whether the call
\*      at script start, the DOMContentLoaded listener or both run
\*      initializeExtension, the page has at most one shared change observer,
\*      one Ctrl+Space key listener, one command bar, one recorder observer
\*      and one THEME_CHANGED listener.
\* ------------------------------------------------------------------------
InitialisedOnce ==
  /\ sharedObservers <= 1
  /\ keyListeners <= 1
  /\ cbBars <= 1
  /\ recObservers <= 1
  /\ themeListeners[ObservedTab] <= 1

\* ------------------------------------------------------------------------
\* C25  No self-triggering: a batch of records holding only nodes that the
\*      highlighter passes and the theme, command-bar and recorder modules
\*      add never makes a shared observer run its callback, and its delivery
\*      leaves no record queued; the callback has run at most once per
\*      observer and page insertion.
\* ------------------------------------------------------------------------
ExtensionMade(batch) ==
  \A i \in 1..Len(batch) : \A j \in 1..Len(batch[i].addedNodes) :
    batch[i].addedNodes[j] \in HighlighterNodes \cup ModuleNodes

NoSelfTriggering ==
  /\ [][(lastEvent'.op = "deliverBatch" /\ ExtensionMade(pendingBatch))
          => callbackRuns' = 0 /\ pendingBatch' = <<>>]_vars
  /\ [](callbackTotal <= sharedObservers * Len(codeBlocks))

\* the records of a highlighter pass have been delivered without a callback
NoSelfTriggeringWitness ==
  /\ lastEvent.op = "deliverBatch"
  /\ ~lastEvent.flag
  /\ lastEvent.arg = "elements"
  /\ moduleInserts = 0
  /\ Len(codeBlocks) = 1
  /\ codeBlocks[1].highlighted
  /\ parents[1].copy
  /\ callbackTotal > 0
  /\ pendingBatch = <<>>

\* ------------------------------------------------------------------------
\* C26  No duplicate entries: the buffer never holds two entries made from
\*      the same message node, also when the page removes a message node and
\*      inserts it again while recording and when initSessionRecorder has run
\*      more than once.
\* ------------------------------------------------------------------------
NoDuplicateEntries ==
  \A j, k \in 1..Len(recordedSession) :
    recordedSession[j].node = recordedSession[k].node => j = k

\* ------------------------------------------------------------------------
\* C27  No lost settings update: once every request has been handled and
\*      every reply consumed, the persisted settings hold the theme the user
\*      selected last and, after addCustomCommand, the full command list,
\*      also when the theme change fell between addCustomCommand's settings
\*      read and its SAVE_SETTINGS write.
\* ------------------------------------------------------------------------
NoLostSettingsUpdate ==
  (bus = <<>> /\ inbox[ObservedTab] = <<>> /\ themeChanges > 0)
    => /\ storedSettings.theme = themeState[ObservedTab].currentTheme
       /\ cbAdds > 0 => /\ storedSettings.hasCommands
                        /\ storedSettings.commands = commands

\* ------------------------------------------------------------------------
\* C28  Theme value stays in the theme set: in every reachable state
\*      currentTheme is one of light, dark, high-contrast, custom and the
\*      body carries at most one theme-* marker class, whatever theme value
\*      the persisted settings or a THEME_CHANGED message carry.
\* ------------------------------------------------------------------------
ThemeStaysInSet ==
  /\ themeState[ObservedTab].currentTheme \in AvailableThemes
  /\ Cardinality(themeState[ObservedTab].bodyClasses \ PrismClasses) <= 1

\* ------------------------------------------------------------------------
\* C29  No broadcast echo: a tab that applies a theme because it received
\*      THEME_CHANGED sends no request; only a user's change of the theme
\*      selector adds theme requests, one SAVE_SETTINGS and one APPLY_THEME,
\*      so the theme requests and notifications in flight never exceed two
\*      per user change.
\* ------------------------------------------------------------------------
ThemeRequests(queue) ==
  Cardinality({i \in 1..Len(queue) :
                 queue[i].type \in {"SAVE_SETTINGS", "APPLY_THEME"}
                 /\ queue[i].tag = "theme"})

ThemeNotifications(t) ==
  Cardinality({i \in 1..Len(inbox[t]) : inbox[t][i].type = "THEME_CHANGED"})

NoBroadcastEcho ==
  /\ [][/\ lastEvent'.op = "themeChanged" => bus' = bus
        /\ lastEvent'.op = "selectTheme"
             => ThemeRequests(bus') = ThemeRequests(bus) + 2
        /\ lastEvent'.op # "selectTheme"
             => ThemeRequests(bus') <= ThemeRequests(bus)]_vars
  /\ [](\A t \in Tabs :
          ThemeRequests(bus) + ThemeNotifications(t) <= 2 * themeChanges)

\* both tabs have applied a broadcast theme and nothing is in flight
NoBroadcastEchoWitness ==
  /\ lastEvent.op = "themeChanged"
  /\ lastEvent.flag
  /\ lastEvent.arg = "dark"
  /\ \A t \in Tabs : /\ themeListeners[t] > 0
                     /\ themeState[t].currentTheme = "dark"
                     /\ inbox[t] = <<>>
  /\ bus = <<>>

====
